---- MODULE Spec2Model ----
(***************************************************************************)
(* The firewall service of aegisx: Service (internal/firewall/adapter.go)  *)
(* serialises apply / rollback / flush on one sync.RWMutex and drives the  *)
(* nftables Adapter (internal/firewall/nftables.go), which translates an   *)
(* IR into a ruleset file, snapshots the live table into the rollback      *)
(* directory, loads the file with `nft -f` and, when the load fails, loads *)
(* the latest snapshot again.                                              *)
(*                                                                         *)
(* The kernel table, the rollback directory and the wall clock are the     *)
(* environment of the program; the callers are goroutines (HTTP handlers   *)
(* and the reload ticker) that each run one Service method at a time.      *)
(*                                                                         *)
(* Spec and SeqSpec follow the Service under concurrent and under          *)
(* sequential callers, DirSpec on a rollback directory that holds other    *)
(* entries too.  WatchSpec follows WatchAndReload (adapter.go) beside      *)
(* run() of the main package, with an operator editing the policy          *)
(* directory.  EngineSpec follows policy.Engine.Compile and the Validator  *)
(* (internal/policy) on lists of FirewallPolicy manifests.                 *)
(***************************************************************************)
EXTENDS Integers, Sequences, FiniteSets, TLC

\* ─── Bounds of the model ─────────────────────────────────────────────────
MaxClock == 2       \* the wall clock runs over 1..MaxClock milliseconds
MaxCalls == 4       \* mutating Service calls of a run with one calling goroutine
MaxConcCalls == 2   \* mutating Service calls of a run with concurrent callers

Watcher == "watcher"                  \* the goroutine running WatchAndReload
Procs == {"g1", "g2", Watcher}        \* goroutines calling into the Service
None  == "none"

\* Manifest lists a caller may submit.  "mInvalid" fails ValidateAll; "mBad"
\* validates but translates to a statement the kernel loader rejects; "mA"
\* and "mB" are accepted policies with different rules.
ManifestSets == {"mA", "mB", "mBad", "mInvalid"}
ParseFailure == "parse_error"

\* The contents of the policy directory: the manifest list its parseable
\* *.yaml and *.yml files hold together, and whether it also holds a file that
\* does not parse.
PolicyDirs ==
    {[manifests |-> m, broken |-> FALSE] : m \in ManifestSets}
        \cup {[manifests |-> "mA", broken |-> TRUE]}

\* The directory of a run that nobody edits: the files of "mA" and one file
\* that does not parse.
BrokenDir == [manifests |-> "mA", broken |-> TRUE]

\* parser.ParseDir that skips a file that does not parse and goes on with the
\* others.
ParseFiles_SkipBroken(d) == d.manifests

\* parser.ParseDir on directory d: the first file that fails to parse fails
\* the whole read and the manifests read so far are dropped.
ParseFiles(d) == IF d.broken THEN ParseFailure ELSE d.manifests

VARIABLES
    kernel,     \* the inet table in the kernel: [present, chains]
    rbDir,      \* the rollback directory on disk: [exists, files]
    now,        \* wall clock, milliseconds
    dryRun,     \* ServiceConfig.DryRun / Adapter.dryRun
    current,    \* Service.current: the last applied IR, or None
    writer,     \* holder of Service.mu in write mode, or None
    readers,    \* holders of Service.mu in read mode
    pc,         \* position of each goroutine
    man,        \* the manifests a goroutine is applying
    ir,         \* the IR a goroutine compiled and passes to ApplyIR
    ruleset,    \* the text Adapter.Apply translated (the temp file's content)
    err,        \* the error the call in progress will return ("ok" = nil)
    rbErr,      \* the result of the automatic rollback inside Apply
    pre,        \* kernel, rollback directory and current IR when the lock was taken
    loads,      \* loader (`nft -f`) invocations of the call in progress
    rbCalls,    \* Adapter.Rollback invocations of the call in progress
    last,       \* the last completed mutating call
    usedOps,    \* kinds of mutating calls that have taken the lock so far
    overlap,    \* an apply took the lock while another apply was already submitted
    calls,      \* mutating calls started so far
    goroutines, \* the goroutines that call into the Service in this run
    policyDir,  \* the policy directory on disk: [manifests, broken]
    ticker,     \* a tick is waiting in ticker.C of WatchAndReload
    cancelled,  \* reloadCtx is cancelled (ctx.Done() is closed)
    watcher,    \* position of the WatchAndReload goroutine
    main,       \* position of run() in the main goroutine
    dirEdited,  \* the policy directory changed since the watcher's last wake
    manifests,  \* the manifest list given to engine.Compile
    tie,        \* how this build's sort.Slice orders elements that compare equal
    irs,        \* the results of the Compile runs on `manifests` so far
    uuids,      \* identifiers uuid.NewString has handed out
    trIR,       \* the IR given to Adapter.Translate and Adapter.Diff
    texts,      \* the texts the Translate calls on trIR returned so far
    delta,      \* the result of the last Adapter.Diff call, or NoDelta
    dirFiles,   \* the *.yaml / *.yml files of a directory given to ParseDir
    parsed,     \* the result of the ParseDir call on dirFiles, or NotParsed
    records,    \* the policies table of the PolicyStore
    handler,    \* the PolicyHandler.Apply request in progress
    statusResp  \* the FirewallHandler.Status request in progress, then its response

\* The variables of the watcher and the process, and those of the engine.
watchVars  == <<policyDir, ticker, cancelled, watcher, main, dirEdited>>
engineVars == <<manifests, tie, irs, uuids>>
\* The variables of the runs that follow the translator, the parser and the
\* apply-by-id handler on their own.
toolVars   == <<trIR, texts, delta, dirFiles, parsed, records, handler, statusResp>>

vars == <<kernel, rbDir, now, dryRun, current, writer, readers, pc, man, ir,
          ruleset, err, rbErr, pre, loads, rbCalls, last, usedOps, overlap, calls, goroutines,
          watchVars, engineVars, toolVars>>

\* ─── The nftables table and ruleset texts ────────────────────────────────
Chains == {"ct_state", "input", "forward", "output", "prerouting", "postrouting"}

EmptyChains == [c \in Chains |-> <<>>]

Absent == [present |-> FALSE, chains |-> EmptyChains]

\* The rules the template writes into every ruleset, per chain.
TemplateRules ==
    [c \in Chains |->
        CASE c = "ct_state" -> <<"ct state invalid drop", "ct state established accept">>
          [] c = "input"    -> <<"jump ct_state", "iif lo accept">>
          [] c = "forward"  -> <<"jump ct_state">>
          [] c = "output"   -> <<"ct state established accept">>
          [] OTHER          -> <<>>]

\* engine.Compile on manifests that validate: the firewall rules of the IR.
FirewallRulesOf(m) ==
    CASE m = "mA"   -> << [Chain |-> "input",   Stmt |-> "tcp dport 22 accept"] >>
      [] m = "mB"   -> << [Chain |-> "forward", Stmt |-> "ip saddr 10.0.0.0/8 drop"] >>
      [] m = "mBad" -> << [Chain |-> "forward", Stmt |-> "limit rate bogus accept"] >>
      [] OTHER      -> << >>

ValidateAll(m) == m # "mInvalid"

\* The IR of one compilation: Version is the clock at compile time.
CompileIR(m, t) ==
    [Version |-> t, Manifests |-> m, FirewallRules |-> FirewallRulesOf(m), NATRules |-> <<>>]

RECURSIVE StmtsOf(_, _)
\* The statements of `rules` that Translate files under chain c: "input" and
\* "output" by name, every other chain value under "forward".
StmtsOf(rules, c) ==
    IF rules = <<>> THEN <<>>
    ELSE LET r    == Head(rules)
             dest == IF r.Chain = "input" THEN "input"
                     ELSE IF r.Chain = "output" THEN "output" ELSE "forward"
         IN  (IF dest = c THEN <<r.Stmt>> ELSE <<>>) \o StmtsOf(Tail(rules), c)

\* translateDNAT, translateSNAT and translateMasquerade on a rule without
\* source, destination and interface: the statement names the target address.
translateDNAT(r) == "dnat to " \o r.ToAddr
translateSNAT(r) == "snat to " \o r.ToAddr
translateMasquerade(r) == "masquerade"

RECURSIVE NatStmtsOf_AllPrerouting(_, _)
\* The NAT loop of Translate with every rule filed under prerouting.
NatStmtsOf_AllPrerouting(rules, c) ==
    IF rules = <<>> THEN <<>>
    ELSE LET r == Head(rules)
         IN  (IF c = "prerouting"
              THEN << CASE r.Type = "DNAT" -> translateDNAT(r)
                        [] r.Type = "SNAT" -> translateSNAT(r)
                        [] OTHER           -> translateMasquerade(r) >>
              ELSE <<>>)
             \o NatStmtsOf_AllPrerouting(Tail(rules), c)

RECURSIVE NatStmtsOf(_, _)
\* The statements of the NAT `rules` that Translate files under chain c: DNAT
\* under prerouting, SNAT and MASQUERADE under postrouting; a rule of another
\* type is left out.
NatStmtsOf(rules, c) ==
    IF rules = <<>> THEN <<>>
    ELSE LET r == Head(rules)
         IN  (CASE r.Type = "DNAT" /\ c = "prerouting"        -> <<translateDNAT(r)>>
                [] r.Type = "SNAT" /\ c = "postrouting"       -> <<translateSNAT(r)>>
                [] r.Type = "MASQUERADE" /\ c = "postrouting" -> <<translateMasquerade(r)>>
                [] OTHER                                      -> <<>>)
             \o NatStmtsOf(Tail(rules), c)

MsPerSecond == 1000

\* time.Now().UTC().Format(time.RFC3339) at the instant of t milliseconds: the
\* text names the second of the instant (here by its number), nothing finer.
FormatRFC3339(t) == t \div MsPerSecond

\* Adapter.Translate: the template filled in.  The header carries the time of
\* the call; the table block declares the table, its chains and their rules,
\* and holds no flush or delete statement.
Translate(i, t) ==
    [Timestamp |-> FormatRFC3339(t),
     flush     |-> FALSE,
     chains    |-> [c \in Chains |-> TemplateRules[c] \o StmtsOf(i.FirewallRules, c)
                                                      \o NatStmtsOf(i.NATRules, c)]]

\* The statements the kernel loader refuses.
Rejected(text) ==
    \E c \in Chains : \E k \in 1..Len(text.chains[c]) :
        text.chains[c][k] = "limit rate bogus accept"

\* `nft -f file`: one transaction.  A rejected file changes nothing.  An
\* accepted file creates the table and chains that do not exist and adds its
\* rules at the end of each chain; rules already in the table are removed only
\* by a flush statement in the file.
NftLoad(k, text) ==
    IF Rejected(text) THEN [ok |-> FALSE, kernel |-> k]
    ELSE [ok     |-> TRUE,
          kernel |-> [present |-> TRUE,
                      chains  |-> [c \in Chains |->
                                     (IF k.present /\ ~text.flush THEN k.chains[c] ELSE <<>>)
                                     \o text.chains[c]]]]

NoText == [Timestamp |-> 0, flush |-> FALSE, chains |-> EmptyChains]

NoIR == [Version |-> 0, Manifests |-> None, FirewallRules |-> <<>>, NATRules |-> <<>>]

\* Adapter.dumpCurrent: `nft -s list table`, an error when the table is absent.
\* The listing is the table's content; it carries no generated-at header.
dumpCurrent(k) ==
    IF k.present THEN [ok |-> TRUE, text |-> [Timestamp |-> 0, flush |-> FALSE, chains |-> k.chains]]
    ELSE [ok |-> FALSE, text |-> NoText]

\* The set of (chain, statement) lines of a table or text.
LineSet(chains) == UNION {{<<c, chains[c][k]>> : k \in 1..Len(chains[c])} : c \in Chains}

\* ─── Ruleset texts as lines, and Adapter.Diff ───────────────────────────
\* A line of a ruleset text: its indentation, its words, the chain it names
\* (for the lines that name one) and the second it names (the header line).
TextLine(indent, body, of, ts) == [indent |-> indent, body |-> body, of |-> of, ts |-> ts]

\* strings.TrimSpace on a line: the indentation goes.
TrimSpace(l) == [l EXCEPT !.indent = ""]

ChainOrder == <<"ct_state", "input", "forward", "output", "prerouting", "postrouting">>

RECURSIVE Concat(_)
Concat(ss) == IF ss = <<>> THEN <<>> ELSE Head(ss) \o Concat(Tail(ss))

\* The lines of nftTableTemplate for chain c, filled in with the statements
\* stmts: the comment line, the chain, its hook line, the statements, the
\* line of blanks the range block leaves, the closing brace.
FileSection(c, stmts) ==
    << TextLine("    ", "# section", c, 0),
       TextLine("    ", "chain {", c, 0) >>
    \o (IF c = "ct_state" THEN <<>> ELSE << TextLine("        ", "type hook;", c, 0) >>)
    \o [k \in 1..Len(stmts) |-> TextLine("        ", stmts[k], "", 0)]
    \o (IF c = "ct_state" THEN <<>> ELSE << TextLine("        ", "", "", 0) >>)
    \o << TextLine("    ", "}", "", 0) >>
    \o (IF c = "postrouting" THEN <<>> ELSE << TextLine("", "", "", 0) >>)

\* strings.Split(proposed, "\n") on the text Translate returned.
FileLines(text) ==
    << TextLine("", "# AegisX nftables ruleset - generated", "", text.Timestamp),
       TextLine("", "# DO NOT EDIT MANUALLY", "", 0),
       TextLine("", "", "", 0),
       TextLine("", "table inet {", "", 0) >>
    \o Concat([k \in 1..Len(ChainOrder) |-> FileSection(ChainOrder[k], text.chains[ChainOrder[k]])])
    \o << TextLine("", "}", "", 0), TextLine("", "", "", 0) >>

\* The lines `nft -s list table` prints for chain c: the kernel keeps the
\* chains and their rules, not the comment lines of the file they came from.
ListingSection(c, stmts) ==
    << TextLine("\t", "chain {", c, 0) >>
    \o (IF c = "ct_state" THEN <<>> ELSE << TextLine("\t\t", "type hook;", c, 0) >>)
    \o [k \in 1..Len(stmts) |-> TextLine("\t\t", stmts[k], "", 0)]
    \o << TextLine("\t", "}", "", 0) >>
    \o (IF c = "postrouting" THEN <<>> ELSE << TextLine("", "", "", 0) >>)

\* strings.Split(current, "\n") on the listing dumpCurrent returned.
ListingLines(text) ==
    << TextLine("", "table inet {", "", 0) >>
    \o Concat([k \in 1..Len(ChainOrder) |-> ListingSection(ChainOrder[k], text.chains[ChainOrder[k]])])
    \o << TextLine("", "}", "", 0), TextLine("", "", "", 0) >>

Signed(sign, lines) == [k \in 1..Len(lines) |-> [sign |-> sign, line |-> lines[k]]]

\* simpleDiff: the lines of current whose trimmed text is no line of proposed,
\* with "- ", then the lines of proposed whose trimmed text is no line of
\* current, with "+ ".
simpleDiff(cLines, pLines) ==
    LET cSet == {TrimSpace(cLines[k]) : k \in 1..Len(cLines)}
        pSet == {TrimSpace(pLines[k]) : k \in 1..Len(pLines)}
        NotProposed(l) == TrimSpace(l) \notin pSet
        NotCurrent(l)  == TrimSpace(l) \notin cSet
    IN  Signed("-", SelectSeq(cLines, NotProposed)) \o Signed("+", SelectSeq(pLines, NotCurrent))

\* Adapter.Diff on table k at time t: without a listing, the two marker lines
\* and the whole proposed text.
Diff(k, i, t) ==
    LET proposed == Translate(i, t)
        cur      == dumpCurrent(k)
    IN  IF ~cur.ok
        THEN << [sign |-> "---", line |-> TextLine("", "current (empty)", "", 0)],
                [sign |-> "+++", line |-> TextLine("", "proposed", "", 0)] >>
             \o Signed("", FileLines(proposed))
        ELSE simpleDiff(ListingLines(cur.text), FileLines(proposed))

\* ─── The rollback directory ──────────────────────────────────────────────
\* A file rollback-<t>.conf is the entry t of rbDir.files.  All names of a run
\* have the same number of digits, so the name order of os.ReadDir is the
\* order of the numbers.  rbDir.others holds the names of the entries that are
\* not snapshots of the Adapter (the directory is a path of the host's file
\* system, given in the configuration).
NoDir == [exists |-> FALSE, files |-> <<>>, others |-> {}]

\* Entries another program or an operator may have left in the directory.
\* In byte order "README" < "rollback-..." < "snapshots.old".
OtherEntries == {"README", "snapshots.old"}

\* The entry names that os.ReadDir lists after every rollback-<t>.conf.
SortsAfterSnapshots(name) == name = "snapshots.old"

\* The content of an entry that is no snapshot: not a ruleset the loader takes.
OtherContent ==
    [Timestamp |-> 0, flush |-> FALSE,
     chains |-> [c \in Chains |-> IF c = "input" THEN <<"limit rate bogus accept">> ELSE <<>>]]

Max(S) == CHOOSE x \in S : \A y \in S : y <= x

\* Adapter.saveRollback at time t.  mkdirOk and writeOk are the outcomes of
\* os.MkdirAll (on a directory that does not exist yet) and os.WriteFile.
saveRollback(d, k, t, mkdirOk, writeOk) ==
    IF ~d.exists /\ ~mkdirOk THEN d
    ELSE LET d1 == [d EXCEPT !.exists = TRUE]
             cur == dumpCurrent(k)
         IN  IF ~cur.ok THEN d1
             ELSE IF ~writeOk THEN d1
             ELSE [d1 EXCEPT !.files = (t :> cur.text) @@ @]

\* Adapter.latestRollbackFile: the last entry of the directory listing,
\* whatever its name.  `snapshot` tells whether it is a rollback-<t>.conf
\* (then `name` is t) or another entry (then `other` is its name).
latestRollbackFile(d) ==
    IF ~d.exists THEN [ok |-> FALSE, snapshot |-> FALSE, name |-> 0, other |-> None]
    ELSE IF DOMAIN d.files = {} /\ d.others = {}
         THEN [ok |-> FALSE, snapshot |-> FALSE, name |-> 0, other |-> None]
    ELSE IF \E e \in d.others : SortsAfterSnapshots(e)
         THEN [ok |-> TRUE, snapshot |-> FALSE, name |-> 0,
               other |-> CHOOSE e \in d.others : SortsAfterSnapshots(e)]
    ELSE IF DOMAIN d.files # {}
         THEN [ok |-> TRUE, snapshot |-> TRUE, name |-> Max(DOMAIN d.files), other |-> None]
    ELSE [ok |-> TRUE, snapshot |-> FALSE, name |-> 0, other |-> CHOOSE e \in d.others : TRUE]

\* The content of the entry latestRollbackFile returned.
EntryContent(d, latest) ==
    IF latest.snapshot THEN d.files[latest.name] ELSE OtherContent

\* Adapter.Rollback that takes "nothing to restore" for success and removes
\* the table.
Rollback_NoSnapshotIsSuccess(k, d) ==
    LET latest == latestRollbackFile(d)
    IN  IF ~latest.ok THEN [err |-> "ok", kernel |-> Absent, loads |-> 0]
        ELSE LET r == NftLoad(k, EntryContent(d, latest))
             IN  IF r.ok THEN [err |-> "ok", kernel |-> r.kernel, loads |-> 1]
                 ELSE [err |-> "rollback_load", kernel |-> k, loads |-> 1]

\* Adapter.Rollback on table k with directory d.
Rollback(k, d) ==
    LET latest == latestRollbackFile(d)
    IN  IF ~latest.ok THEN [err |-> "no_snapshot", kernel |-> k, loads |-> 0]
        ELSE LET r == NftLoad(k, EntryContent(d, latest))
             IN  IF r.ok THEN [err |-> "ok", kernel |-> r.kernel, loads |-> 1]
                 ELSE [err |-> "rollback_load", kernel |-> k, loads |-> 1]

\* `nft delete table inet <name>`: removes the table with all its chains; when
\* there is no such table it fails and prints "Error: No such file or
\* directory".
NftDeleteTable(k) ==
    IF k.present THEN [failed |-> FALSE, out |-> "", kernel |-> Absent]
    ELSE [failed |-> TRUE, out |-> "No such file", kernel |-> k]

\* Adapter.Flush that returns every failure of the delete command.
Flush_AbsentIsError(k) ==
    LET r == NftDeleteTable(k)
    IN  IF r.failed THEN [err |-> "flush", kernel |-> r.kernel]
        ELSE [err |-> "ok", kernel |-> r.kernel]

\* Adapter.Flush: the delete command; a failure whose output contains
\* "No such file" is success.
Flush(k) ==
    LET r == NftDeleteTable(k)
    IN  IF r.failed /\ r.out # "No such file" THEN [err |-> "flush", kernel |-> r.kernel]
        ELSE [err |-> "ok", kernel |-> r.kernel]

\* ─── Service.mu ──────────────────────────────────────────────────────────
\* A write lock that does not wait for the readers to leave.
CanLock_IgnoringReaders == writer = None

CanLock  == writer = None /\ readers = {}
CanRLock == writer = None

NoPre  == [kernel |-> Absent, rbDir |-> NoDir, current |-> NoIR]
NoLast == [op |-> None, err |-> None, preKernel |-> Absent, man |-> None]

\* The calls a run may still start.
CallBudget == IF Cardinality(goroutines) > 1 THEN MaxConcCalls ELSE MaxCalls

InitService ==
    /\ kernel = Absent
    /\ now = 1
    /\ dryRun \in BOOLEAN
    /\ current = NoIR
    /\ writer = None
    /\ readers = {}
    /\ pc = [p \in Procs |-> "idle"]
    /\ man = [p \in Procs |-> None]
    /\ ir = [p \in Procs |-> NoIR]
    /\ ruleset = [p \in Procs |-> NoText]
    /\ err = [p \in Procs |-> None]
    /\ rbErr = [p \in Procs |-> None]
    /\ pre = [p \in Procs |-> NoPre]
    /\ loads = [p \in Procs |-> 0]
    /\ rbCalls = [p \in Procs |-> 0]
    /\ last = NoLast
    /\ usedOps = {}
    /\ overlap = FALSE
    /\ calls = 0

\* cfg.Firewall.HotReload is off: no watcher goroutine; run() serves.
NoWatcher ==
    /\ ticker = FALSE
    /\ cancelled = FALSE
    /\ watcher = "off"
    /\ main = "serving"
    /\ dirEdited = FALSE

\* No Compile run is followed on its own.
NoEngine ==
    /\ manifests = <<>>
    /\ tie = "input_order"
    /\ irs = <<>>
    /\ uuids = 0

NoDelta   == [done |-> FALSE, live |-> FALSE, at |-> 0, out |-> <<>>]
NotParsed == [done |-> FALSE, ok |-> FALSE, manifests |-> <<>>]
NoRequest == [stage |-> "none", id |-> 0, yaml |-> None, resp |-> 0]
NoResponse == [done |-> FALSE, status |-> None, ruleset |-> NoText, ir |-> NoIR,
               irThen |-> NoIR, liveThen |-> NoText]

\* No Translate, Diff or ParseDir call is followed on its own, and no policy
\* is stored.
NoTools ==
    /\ trIR = NoIR
    /\ texts = <<>>
    /\ delta = NoDelta
    /\ dirFiles = <<>>
    /\ parsed = NotParsed
    /\ records = <<>>
    /\ handler = NoRequest
    /\ statusResp = NoResponse

\* HTTP handlers call concurrently.
Init ==
    /\ InitService /\ rbDir = NoDir /\ goroutines = {"g1", "g2"}
    /\ policyDir = BrokenDir /\ NoWatcher /\ NoEngine /\ NoTools

\* One caller at a time: the calls follow each other.
SeqInit ==
    /\ InitService /\ rbDir = NoDir /\ goroutines = {"g1"}
    /\ policyDir = BrokenDir /\ NoWatcher /\ NoEngine /\ NoTools

\* One caller at a time, on a rollback directory that may already exist and
\* hold entries that are not snapshots.
DirInit ==
    /\ InitService /\ goroutines = {"g1"}
    /\ rbDir \in {NoDir} \cup {[exists |-> TRUE, files |-> <<>>, others |-> o] :
                                   o \in SUBSET OtherEntries}
    /\ policyDir = BrokenDir /\ NoWatcher /\ NoEngine /\ NoTools

\* The wall clock advances.
Tick ==
    /\ now < MaxClock
    /\ now' = now + 1
    /\ UNCHANGED <<kernel, rbDir, dryRun, current, writer, readers, pc, man, ir,
                   ruleset, err, rbErr, pre, loads, rbCalls, last, usedOps, calls, goroutines, overlap>>
    /\ UNCHANGED <<watchVars, engineVars, toolVars>>

\* ─── Service.ApplyPolicyDir / Service.ApplyManifests ─────────────────────
\* A goroutine calls ApplyPolicyDir.
ApplyPolicyDir(p) ==
    /\ p \in goroutines
    /\ pc[p] = "idle"
    /\ calls < CallBudget
    /\ calls' = calls + 1
    /\ pc' = [pc EXCEPT ![p] = "parsedir"]
    /\ UNCHANGED <<kernel, rbDir, now, dryRun, current, writer, readers, man, ir,
                   ruleset, err, rbErr, pre, loads, rbCalls, last, usedOps, goroutines, overlap>>
    /\ UNCHANGED <<watchVars, engineVars, toolVars>>

\* s.parser.ParseDir(s.cfg.PolicyDir) in ApplyPolicyDir; on an error the
\* call returns it.
ParseDir(p) ==
    /\ pc[p] = "parsedir"
    /\ LET read == ParseFiles(policyDir)
       IN IF read = ParseFailure
          THEN /\ pc' = [pc EXCEPT ![p] = "idle"]
               /\ UNCHANGED man
          ELSE /\ man' = [man EXCEPT ![p] = read]
               /\ pc' = [pc EXCEPT ![p] = "compile"]
    /\ UNCHANGED <<kernel, rbDir, now, dryRun, current, writer, readers, ir,
                   ruleset, err, rbErr, pre, loads, rbCalls, last, usedOps, calls, goroutines, overlap>>
    /\ UNCHANGED <<watchVars, engineVars, toolVars>>

\* A goroutine calls ApplyManifests with manifests m.
ApplyManifests(p, m) ==
    /\ p \in goroutines
    /\ pc[p] = "idle"
    /\ calls < CallBudget
    /\ calls' = calls + 1
    /\ man' = [man EXCEPT ![p] = m]
    /\ pc' = [pc EXCEPT ![p] = "compile"]
    /\ UNCHANGED <<kernel, rbDir, now, dryRun, current, writer, readers, ir,
                   ruleset, err, rbErr, pre, loads, rbCalls, last, usedOps, goroutines, overlap>>
    /\ UNCHANGED <<watchVars, engineVars, toolVars>>

\* engine.Compile, called by ApplyManifests before ApplyIR takes the lock.
Compile(p) ==
    /\ pc[p] = "compile"
    /\ IF ValidateAll(man[p])
       THEN /\ ir' = [ir EXCEPT ![p] = CompileIR(man[p], now)]
            /\ pc' = [pc EXCEPT ![p] = "applyir"]
            /\ UNCHANGED man
       ELSE /\ pc' = [pc EXCEPT ![p] = "idle"]
            /\ man' = [man EXCEPT ![p] = None]
            /\ UNCHANGED ir
    /\ UNCHANGED <<kernel, rbDir, now, dryRun, current, writer, readers,
                   ruleset, err, rbErr, pre, loads, rbCalls, last, usedOps, calls, goroutines, overlap>>
    /\ UNCHANGED <<watchVars, engineVars, toolVars>>

\* ─── Service.ApplyIR and Adapter.Apply ───────────────────────────────────
\* s.mu.Lock() of ApplyIR.
ApplyIR_Lock(p) ==
    /\ pc[p] = "applyir"
    /\ CanLock
    /\ writer' = p
    /\ pre' = [pre EXCEPT ![p] = [kernel |-> kernel, rbDir |-> rbDir, current |-> current]]
    /\ usedOps' = usedOps \cup {"apply"}
    /\ overlap' = (overlap \/ \E q \in Procs \ {p} : pc[q] \in {"parsedir", "compile", "applyir"})
    /\ pc' = [pc EXCEPT ![p] = "translate"]
    /\ UNCHANGED <<kernel, rbDir, now, dryRun, current, readers, man, ir,
                   ruleset, err, rbErr, loads, rbCalls, last, calls, goroutines>>
    /\ UNCHANGED <<watchVars, engineVars, toolVars>>

\* Adapter.Apply without the dry-run return: every apply goes on to the loader.
Apply_TranslateNoDryRun(p) ==
    /\ pc[p] = "translate"
    /\ ruleset' = [ruleset EXCEPT ![p] = Translate(ir[p], now)]
    /\ pc' = [pc EXCEPT ![p] = "saveRollback"]
    /\ UNCHANGED <<kernel, rbDir, now, dryRun, current, writer, readers, man, ir,
                   err, rbErr, pre, loads, rbCalls, last, usedOps, calls,
                   goroutines, overlap>>
    /\ UNCHANGED <<watchVars, engineVars, toolVars>>

\* Adapter.Apply: Translate, then the dry-run return.
Apply_Translate(p) ==
    /\ pc[p] = "translate"
    /\ ruleset' = [ruleset EXCEPT ![p] = Translate(ir[p], now)]
    /\ IF dryRun
       THEN /\ err' = [err EXCEPT ![p] = "ok"]
            /\ pc' = [pc EXCEPT ![p] = "applyir_ret"]
       ELSE /\ pc' = [pc EXCEPT ![p] = "saveRollback"]
            /\ UNCHANGED err
    /\ UNCHANGED <<kernel, rbDir, now, dryRun, current, writer, readers, man, ir,
                   rbErr, pre, loads, rbCalls, last, usedOps, calls, goroutines, overlap>>
    /\ UNCHANGED <<watchVars, engineVars, toolVars>>

\* Adapter.Apply that returns saveRollback's error instead of logging it.
Apply_SaveRollback_Abort(p) ==
    /\ pc[p] = "saveRollback"
    /\ \E mkdirOk \in BOOLEAN, writeOk \in BOOLEAN :
          /\ rbDir' = saveRollback(rbDir, kernel, now, mkdirOk, writeOk)
          /\ IF (~rbDir.exists /\ ~mkdirOk) \/ (kernel.present /\ ~writeOk)
             THEN /\ err' = [err EXCEPT ![p] = "snapshot"]
                  /\ pc' = [pc EXCEPT ![p] = "applyir_ret"]
             ELSE /\ pc' = [pc EXCEPT ![p] = "tmpfile"]
                  /\ UNCHANGED err
    /\ UNCHANGED <<kernel, now, dryRun, current, writer, readers, man, ir,
                   ruleset, rbErr, pre, loads, rbCalls, last, usedOps, calls, goroutines, overlap>>
    /\ UNCHANGED <<watchVars, engineVars, toolVars>>

\* Adapter.Apply: saveRollback; its error is logged and Apply goes on.
Apply_SaveRollback(p) ==
    /\ pc[p] = "saveRollback"
    /\ \E mkdirOk \in BOOLEAN, writeOk \in BOOLEAN :
          rbDir' = saveRollback(rbDir, kernel, now, mkdirOk, writeOk)
    /\ pc' = [pc EXCEPT ![p] = "tmpfile"]
    /\ UNCHANGED <<kernel, now, dryRun, current, writer, readers, man, ir,
                   ruleset, err, rbErr, pre, loads, rbCalls, last, usedOps, calls, goroutines, overlap>>
    /\ UNCHANGED <<watchVars, engineVars, toolVars>>

\* Adapter.Apply that treats a temp-file failure like a failure of the loader
\* and goes on to the rollback.
Apply_TempFile_Reverts(p) ==
    /\ pc[p] = "tmpfile"
    /\ \E fileOk \in BOOLEAN :
          pc' = [pc EXCEPT ![p] = IF fileOk THEN "load" ELSE "revert"]
    /\ UNCHANGED <<kernel, rbDir, now, dryRun, current, writer, readers, man, ir,
                   ruleset, err, rbErr, pre, loads, rbCalls, last, usedOps, calls, goroutines, overlap>>
    /\ UNCHANGED <<watchVars, engineVars, toolVars>>

\* Adapter.Apply: os.CreateTemp and WriteString; either may fail.
Apply_TempFile(p) ==
    /\ pc[p] = "tmpfile"
    /\ \E fileOk \in BOOLEAN :
          IF fileOk
          THEN /\ pc' = [pc EXCEPT ![p] = "load"]
               /\ UNCHANGED err
          ELSE /\ err' = [err EXCEPT ![p] = "tmpfile"]
               /\ pc' = [pc EXCEPT ![p] = "applyir_ret"]
    /\ UNCHANGED <<kernel, rbDir, now, dryRun, current, writer, readers, man, ir,
                   ruleset, rbErr, pre, loads, rbCalls, last, usedOps, calls, goroutines, overlap>>
    /\ UNCHANGED <<watchVars, engineVars, toolVars>>

\* Adapter.Apply: `nft -f tmpFile`.
Apply_Load(p) ==
    /\ pc[p] = "load"
    /\ LET r == NftLoad(kernel, ruleset[p])
       IN  /\ kernel' = r.kernel
           /\ IF r.ok
              THEN /\ err' = [err EXCEPT ![p] = "ok"]
                   /\ pc' = [pc EXCEPT ![p] = "applyir_ret"]
              ELSE /\ pc' = [pc EXCEPT ![p] = "revert"]
                   /\ UNCHANGED err
    /\ loads' = [loads EXCEPT ![p] = @ + 1]
    /\ UNCHANGED <<rbDir, now, dryRun, current, writer, readers, man, ir,
                   ruleset, rbErr, pre, rbCalls, last, usedOps, calls, goroutines, overlap>>
    /\ UNCHANGED <<watchVars, engineVars, toolVars>>

\* Adapter.Apply returning the rollback's error when the rollback fails too.
Apply_RevertReturnsRollbackErr(p) ==
    /\ pc[p] = "revert"
    /\ LET r == Rollback(kernel, rbDir)
       IN  /\ kernel' = r.kernel
           /\ rbErr' = [rbErr EXCEPT ![p] = r.err]
           /\ loads' = [loads EXCEPT ![p] = @ + r.loads]
           /\ err' = [err EXCEPT ![p] = IF r.err = "ok" THEN "loader" ELSE r.err]
    /\ rbCalls' = [rbCalls EXCEPT ![p] = @ + 1]
    /\ pc' = [pc EXCEPT ![p] = "applyir_ret"]
    /\ UNCHANGED <<rbDir, now, dryRun, current, writer, readers, man, ir,
                   ruleset, pre, last, usedOps, calls, goroutines, overlap>>
    /\ UNCHANGED <<watchVars, engineVars, toolVars>>

\* Adapter.Apply that goes through Service.Rollback for the automatic
\* rollback: the call waits for s.mu, which its own goroutine holds.
Apply_Revert_Relocking(p) ==
    /\ pc[p] = "revert"
    /\ CanLock
    /\ LET r == Rollback(kernel, rbDir)
       IN  /\ kernel' = r.kernel
           /\ rbErr' = [rbErr EXCEPT ![p] = r.err]
           /\ loads' = [loads EXCEPT ![p] = @ + r.loads]
    /\ rbCalls' = [rbCalls EXCEPT ![p] = @ + 1]
    /\ err' = [err EXCEPT ![p] = "loader"]
    /\ pc' = [pc EXCEPT ![p] = "applyir_ret"]
    /\ UNCHANGED <<rbDir, now, dryRun, current, writer, readers, man, ir,
                   ruleset, pre, last, usedOps, calls, goroutines, overlap>>
    /\ UNCHANGED <<watchVars, engineVars, toolVars>>

\* Adapter.Apply after a failed load: Rollback, whose error is only logged;
\* the loader's error is returned.
Apply_Revert(p) ==
    /\ pc[p] = "revert"
    /\ LET r == Rollback(kernel, rbDir)
       IN  /\ kernel' = r.kernel
           /\ rbErr' = [rbErr EXCEPT ![p] = r.err]
           /\ loads' = [loads EXCEPT ![p] = @ + r.loads]
    /\ rbCalls' = [rbCalls EXCEPT ![p] = @ + 1]
    /\ err' = [err EXCEPT ![p] = "loader"]
    /\ pc' = [pc EXCEPT ![p] = "applyir_ret"]
    /\ UNCHANGED <<rbDir, now, dryRun, current, writer, readers, man, ir,
                   ruleset, pre, last, usedOps, calls, goroutines, overlap>>
    /\ UNCHANGED <<watchVars, engineVars, toolVars>>

\* ApplyIR with the error check dropped: s.current = ir whatever Apply returned.
ApplyIR_CommitAlways(p) ==
    /\ pc[p] = "applyir_ret"
    /\ current' = ir[p]
    /\ pc' = [pc EXCEPT ![p] = "applyir_unlock"]
    /\ UNCHANGED <<kernel, rbDir, now, dryRun, writer, readers, man, ir,
                   ruleset, err, rbErr, pre, loads, rbCalls, last, usedOps, calls,
                   goroutines, overlap>>
    /\ UNCHANGED <<watchVars, engineVars, toolVars>>

\* ApplyIR that returns Apply's result and never stores the IR.
ApplyIR_NoCommit(p) ==
    /\ pc[p] = "applyir_ret"
    /\ pc' = [pc EXCEPT ![p] = "applyir_unlock"]
    /\ UNCHANGED <<kernel, rbDir, now, dryRun, current, writer, readers, man, ir,
                   ruleset, err, rbErr, pre, loads, rbCalls, last, usedOps, calls,
                   goroutines, overlap>>
    /\ UNCHANGED <<watchVars, engineVars, toolVars>>

\* ApplyIR after adapter.Apply returned: s.current = ir unless it failed.
ApplyIR_Commit(p) ==
    /\ pc[p] = "applyir_ret"
    /\ current' = IF err[p] = "ok" THEN ir[p] ELSE current
    /\ pc' = [pc EXCEPT ![p] = "applyir_unlock"]
    /\ UNCHANGED <<kernel, rbDir, now, dryRun, writer, readers, man, ir,
                   ruleset, err, rbErr, pre, loads, rbCalls, last, usedOps, calls, goroutines, overlap>>
    /\ UNCHANGED <<watchVars, engineVars, toolVars>>

\* The deferred s.mu.Unlock() of ApplyIR; the call returns err.
ApplyIR_Unlock(p) ==
    /\ pc[p] = "applyir_unlock"
    /\ writer' = None
    /\ last' = [op |-> "apply", err |-> err[p], preKernel |-> pre[p].kernel, man |-> man[p]]
    /\ pc' = [pc EXCEPT ![p] = "idle"]
    /\ man' = [man EXCEPT ![p] = None]
    /\ ir' = [ir EXCEPT ![p] = NoIR]
    /\ ruleset' = [ruleset EXCEPT ![p] = NoText]
    /\ err' = [err EXCEPT ![p] = None]
    /\ rbErr' = [rbErr EXCEPT ![p] = None]
    /\ pre' = [pre EXCEPT ![p] = NoPre]
    /\ loads' = [loads EXCEPT ![p] = 0]
    /\ rbCalls' = [rbCalls EXCEPT ![p] = 0]
    /\ UNCHANGED <<kernel, rbDir, now, dryRun, current, readers, usedOps, calls, goroutines, overlap>>
    /\ UNCHANGED <<watchVars, engineVars, toolVars>>

\* ─── Service.Rollback ────────────────────────────────────────────────────
\* A goroutine calls Rollback: s.mu.Lock().
SvcRollback_Lock(p) ==
    /\ p \in goroutines
    /\ pc[p] = "idle"
    /\ calls < CallBudget
    /\ calls' = calls + 1
    /\ CanLock
    /\ writer' = p
    /\ pre' = [pre EXCEPT ![p] = [kernel |-> kernel, rbDir |-> rbDir, current |-> current]]
    /\ usedOps' = usedOps \cup {"rollback"}
    /\ pc' = [pc EXCEPT ![p] = "rollback_body"]
    /\ UNCHANGED <<kernel, rbDir, now, dryRun, current, readers, man, ir,
                   ruleset, err, rbErr, loads, rbCalls, last, goroutines, overlap>>
    /\ UNCHANGED <<watchVars, engineVars, toolVars>>

\* s.adapter.Rollback() that removes the snapshot file it loaded.
SvcRollback_Body_Consuming(p) ==
    /\ pc[p] = "rollback_body"
    /\ LET r      == Rollback(kernel, rbDir)
           latest == latestRollbackFile(rbDir)
       IN  /\ kernel' = r.kernel
           /\ err' = [err EXCEPT ![p] = r.err]
           /\ loads' = [loads EXCEPT ![p] = @ + r.loads]
           /\ rbDir' = IF r.err = "ok" /\ latest.snapshot
                       THEN [rbDir EXCEPT !.files =
                                [t \in DOMAIN rbDir.files \ {latest.name} |-> rbDir.files[t]]]
                       ELSE rbDir
    /\ pc' = [pc EXCEPT ![p] = "rollback_unlock"]
    /\ UNCHANGED <<now, dryRun, current, writer, readers, man, ir,
                   ruleset, rbErr, pre, rbCalls, last, usedOps, calls, goroutines, overlap>>
    /\ UNCHANGED <<watchVars, engineVars, toolVars>>

\* s.adapter.Rollback() under the lock.
SvcRollback_Body(p) ==
    /\ pc[p] = "rollback_body"
    /\ LET r == Rollback(kernel, rbDir)
       IN  /\ kernel' = r.kernel
           /\ err' = [err EXCEPT ![p] = r.err]
           /\ loads' = [loads EXCEPT ![p] = @ + r.loads]
    /\ pc' = [pc EXCEPT ![p] = "rollback_unlock"]
    /\ UNCHANGED <<rbDir, now, dryRun, current, writer, readers, man, ir,
                   ruleset, rbErr, pre, rbCalls, last, usedOps, calls, goroutines, overlap>>
    /\ UNCHANGED <<watchVars, engineVars, toolVars>>

SvcRollback_Unlock(p) ==
    /\ pc[p] = "rollback_unlock"
    /\ writer' = None
    /\ last' = [op |-> "rollback", err |-> err[p], preKernel |-> pre[p].kernel, man |-> None]
    /\ pc' = [pc EXCEPT ![p] = "idle"]
    /\ err' = [err EXCEPT ![p] = None]
    /\ pre' = [pre EXCEPT ![p] = NoPre]
    /\ loads' = [loads EXCEPT ![p] = 0]
    /\ UNCHANGED <<kernel, rbDir, now, dryRun, current, readers, man, ir,
                   ruleset, rbErr, rbCalls, usedOps, calls, goroutines, overlap>>
    /\ UNCHANGED <<watchVars, engineVars, toolVars>>

\* ─── Service.Flush ───────────────────────────────────────────────────────
\* A goroutine calls Flush: s.mu.Lock().
SvcFlush_Lock(p) ==
    /\ p \in goroutines
    /\ pc[p] = "idle"
    /\ calls < CallBudget
    /\ calls' = calls + 1
    /\ CanLock
    /\ writer' = p
    /\ pre' = [pre EXCEPT ![p] = [kernel |-> kernel, rbDir |-> rbDir, current |-> current]]
    /\ usedOps' = usedOps \cup {"flush"}
    /\ pc' = [pc EXCEPT ![p] = "flush_body"]
    /\ UNCHANGED <<kernel, rbDir, now, dryRun, current, readers, man, ir,
                   ruleset, err, rbErr, loads, rbCalls, last, goroutines, overlap>>
    /\ UNCHANGED <<watchVars, engineVars, toolVars>>

\* s.adapter.Flush() under the lock.
SvcFlush_Body(p) ==
    /\ pc[p] = "flush_body"
    /\ LET r == Flush(kernel)
       IN  /\ kernel' = r.kernel
           /\ err' = [err EXCEPT ![p] = r.err]
    /\ pc' = [pc EXCEPT ![p] = "flush_unlock"]
    /\ UNCHANGED <<rbDir, now, dryRun, current, writer, readers, man, ir,
                   ruleset, rbErr, pre, loads, rbCalls, last, usedOps, calls, goroutines, overlap>>
    /\ UNCHANGED <<watchVars, engineVars, toolVars>>

SvcFlush_Unlock(p) ==
    /\ pc[p] = "flush_unlock"
    /\ writer' = None
    /\ last' = [op |-> "flush", err |-> err[p], preKernel |-> pre[p].kernel, man |-> None]
    /\ pc' = [pc EXCEPT ![p] = "idle"]
    /\ err' = [err EXCEPT ![p] = None]
    /\ pre' = [pre EXCEPT ![p] = NoPre]
    /\ UNCHANGED <<kernel, rbDir, now, dryRun, current, readers, man, ir,
                   ruleset, rbErr, loads, rbCalls, usedOps, calls, goroutines, overlap>>
    /\ UNCHANGED <<watchVars, engineVars, toolVars>>

\* ─── Service.Status and Service.CurrentIR ────────────────────────────────
\* A goroutine calls Status: s.mu.RLock().
Status_RLock(p) ==
    /\ p \in goroutines
    /\ pc[p] = "idle"
    /\ CanRLock
    /\ readers' = readers \cup {p}
    /\ pc' = [pc EXCEPT ![p] = "status_read"]
    /\ UNCHANGED <<kernel, rbDir, now, dryRun, current, writer, man, ir,
                   ruleset, err, rbErr, pre, loads, rbCalls, last, usedOps, calls, goroutines, overlap>>
    /\ UNCHANGED <<watchVars, engineVars, toolVars>>

\* adapter.Status() reads the table; the deferred RUnlock; return.
Status_Read(p) ==
    /\ pc[p] = "status_read"
    /\ readers' = readers \ {p}
    /\ pc' = [pc EXCEPT ![p] = "idle"]
    /\ UNCHANGED <<kernel, rbDir, now, dryRun, current, writer, man, ir,
                   ruleset, err, rbErr, pre, loads, rbCalls, last, usedOps, calls, goroutines, overlap>>
    /\ UNCHANGED <<watchVars, engineVars, toolVars>>

\* A goroutine calls CurrentIR: s.mu.RLock().
CurrentIR_RLock(p) ==
    /\ p \in goroutines
    /\ pc[p] = "idle"
    /\ CanRLock
    /\ readers' = readers \cup {p}
    /\ pc' = [pc EXCEPT ![p] = "currentir_read"]
    /\ UNCHANGED <<kernel, rbDir, now, dryRun, current, writer, man, ir,
                   ruleset, err, rbErr, pre, loads, rbCalls, last, usedOps, calls, goroutines, overlap>>
    /\ UNCHANGED <<watchVars, engineVars, toolVars>>

\* return s.current; the deferred RUnlock.
CurrentIR_Read(p) ==
    /\ pc[p] = "currentir_read"
    /\ readers' = readers \ {p}
    /\ pc' = [pc EXCEPT ![p] = "idle"]
    /\ UNCHANGED <<kernel, rbDir, now, dryRun, current, writer, man, ir,
                   ruleset, err, rbErr, pre, loads, rbCalls, last, usedOps, calls, goroutines, overlap>>
    /\ UNCHANGED <<watchVars, engineVars, toolVars>>

\* ─── Service.DiffManifests ───────────────────────────────────────────────
\* A goroutine calls DiffManifests with manifests m.  The method takes no lock.
DiffManifests(p, m) ==
    /\ p \in goroutines
    /\ pc[p] = "idle"
    /\ man' = [man EXCEPT ![p] = m]
    /\ pc' = [pc EXCEPT ![p] = "diff_compile"]
    /\ UNCHANGED <<kernel, rbDir, now, dryRun, current, writer, readers, ir,
                   ruleset, err, rbErr, pre, loads, rbCalls, last, usedOps, calls, goroutines, overlap>>
    /\ UNCHANGED <<watchVars, engineVars, toolVars>>

\* engine.Compile in DiffManifests; its error is returned.
Diff_Compile(p) ==
    /\ pc[p] = "diff_compile"
    /\ IF ValidateAll(man[p])
       THEN /\ ir' = [ir EXCEPT ![p] = CompileIR(man[p], now)]
            /\ pc' = [pc EXCEPT ![p] = "diff_read"]
            /\ UNCHANGED man
       ELSE /\ pc' = [pc EXCEPT ![p] = "idle"]
            /\ man' = [man EXCEPT ![p] = None]
            /\ UNCHANGED ir
    /\ UNCHANGED <<kernel, rbDir, now, dryRun, current, writer, readers,
                   ruleset, err, rbErr, pre, loads, rbCalls, last, usedOps, calls, goroutines, overlap>>
    /\ UNCHANGED <<watchVars, engineVars, toolVars>>

\* s.adapter.Diff(ir): Translate, the listing of the live table, simpleDiff;
\* the text is returned to the caller.
Diff_Read(p) ==
    /\ pc[p] = "diff_read"
    /\ delta' = [done |-> TRUE, live |-> kernel.present, at |-> now,
                 out |-> Diff(kernel, ir[p], now)]
    /\ pc' = [pc EXCEPT ![p] = "idle"]
    /\ man' = [man EXCEPT ![p] = None]
    /\ ir' = [ir EXCEPT ![p] = NoIR]
    /\ UNCHANGED <<kernel, rbDir, now, dryRun, current, writer, readers,
                   ruleset, err, rbErr, pre, loads, rbCalls, last, usedOps, calls, goroutines, overlap>>
    /\ UNCHANGED <<watchVars, engineVars, trIR, texts, dirFiles, statusResp, parsed, records, handler>>

Next ==
    \/ Tick
    \/ \E p \in Procs :
          \/ ApplyPolicyDir(p)
          \/ ParseDir(p)
          \/ \E m \in ManifestSets : ApplyManifests(p, m)
          \/ Compile(p)
          \/ ApplyIR_Lock(p)
          \/ Apply_Translate(p)
          \/ Apply_SaveRollback(p)
          \/ Apply_TempFile(p)
          \/ Apply_Load(p)
          \/ Apply_Revert(p)
          \/ ApplyIR_Commit(p)
          \/ ApplyIR_Unlock(p)
          \/ SvcRollback_Lock(p)
          \/ SvcRollback_Body(p)
          \/ SvcRollback_Unlock(p)
          \/ SvcFlush_Lock(p)
          \/ SvcFlush_Body(p)
          \/ SvcFlush_Unlock(p)
          \/ Status_RLock(p)
          \/ Status_Read(p)
          \/ CurrentIR_RLock(p)
          \/ CurrentIR_Read(p)

Spec == Init /\ [][Next]_vars

SeqSpec == SeqInit /\ [][Next]_vars

DirSpec == DirInit /\ [][Next]_vars

\* One handler goroutine applies, rolls back and flushes while another one
\* calls DiffManifests.
DiffInit ==
    /\ InitService /\ ~dryRun /\ rbDir = NoDir /\ goroutines = {"g1", "g2"}
    /\ policyDir = BrokenDir /\ NoWatcher /\ NoEngine /\ NoTools

DiffNext ==
    \/ Tick
    \/ \E m \in ManifestSets : ApplyManifests("g1", m)
    \/ Compile("g1")
    \/ ApplyIR_Lock("g1")
    \/ Apply_Translate("g1")
    \/ Apply_SaveRollback("g1")
    \/ Apply_TempFile("g1")
    \/ Apply_Load("g1")
    \/ Apply_Revert("g1")
    \/ ApplyIR_Commit("g1")
    \/ ApplyIR_Unlock("g1")
    \/ SvcRollback_Lock("g1")
    \/ SvcRollback_Body("g1")
    \/ SvcRollback_Unlock("g1")
    \/ SvcFlush_Lock("g1")
    \/ SvcFlush_Body("g1")
    \/ SvcFlush_Unlock("g1")
    \/ \E m \in ManifestSets : DiffManifests("g2", m)
    \/ Diff_Compile("g2")
    \/ Diff_Read("g2")

DiffSpec == DiffInit /\ [][DiffNext]_vars

MaxRestoreCalls == 2   \* mutating calls of a run that starts on an earlier run's table

\* The table and the rollback directory outlive the process: a daemon that
\* starts finds no table and no directory, or the table an earlier run loaded
\* for mA and the snapshot that run took of its table for mB.
EarlierTable(m) == NftLoad(Absent, Translate(CompileIR(m, 0), 0)).kernel

EarlierDir == [exists |-> TRUE, files |-> (0 :> dumpCurrent(EarlierTable("mB")).text), others |-> {}]

\* One handler goroutine applies, rolls back, flushes, reads the status and
\* asks for diffs, one call after the other.
RestoreInit ==
    /\ \/ kernel = Absent /\ rbDir = NoDir
       \/ kernel = EarlierTable("mA") /\ rbDir = EarlierDir
    /\ now = 1
    /\ dryRun = FALSE
    /\ current = NoIR
    /\ writer = None
    /\ readers = {}
    /\ pc = [p \in Procs |-> "idle"]
    /\ man = [p \in Procs |-> None]
    /\ ir = [p \in Procs |-> NoIR]
    /\ ruleset = [p \in Procs |-> NoText]
    /\ err = [p \in Procs |-> None]
    /\ rbErr = [p \in Procs |-> None]
    /\ pre = [p \in Procs |-> NoPre]
    /\ loads = [p \in Procs |-> 0]
    /\ rbCalls = [p \in Procs |-> 0]
    /\ last = NoLast
    /\ usedOps = {}
    /\ overlap = FALSE
    /\ calls = 0
    /\ goroutines = {"g1"}
    /\ policyDir = BrokenDir /\ NoWatcher /\ NoEngine /\ NoTools

RestoreNext ==
    \/ Tick
    \/ \E m \in ManifestSets : calls < MaxRestoreCalls /\ ApplyManifests("g1", m)
    \/ Compile("g1")
    \/ ApplyIR_Lock("g1")
    \/ Apply_Translate("g1")
    \/ Apply_SaveRollback("g1")
    \/ Apply_TempFile("g1")
    \/ Apply_Load("g1")
    \/ Apply_Revert("g1")
    \/ ApplyIR_Commit("g1")
    \/ ApplyIR_Unlock("g1")
    \/ calls < MaxRestoreCalls /\ SvcRollback_Lock("g1")
    \/ SvcRollback_Body("g1")
    \/ SvcRollback_Unlock("g1")
    \/ calls < MaxRestoreCalls /\ SvcFlush_Lock("g1")
    \/ SvcFlush_Body("g1")
    \/ SvcFlush_Unlock("g1")
    \/ Status_RLock("g1")
    \/ Status_Read("g1")
    \/ DiffManifests("g1", "mB")
    \/ Diff_Compile("g1")
    \/ Diff_Read("g1")

RestoreSpec == RestoreInit /\ [][RestoreNext]_vars

\* ─── FirewallHandler.Status ──────────────────────────────────────────────
\* GET /firewall/status arrives: h.svc.Status() takes s.mu.RLock().
StatusHandler_RLock(p) ==
    /\ p \in goroutines
    /\ pc[p] = "idle"
    /\ CanRLock
    /\ readers' = readers \cup {p}
    /\ pc' = [pc EXCEPT ![p] = "h_status_read"]
    /\ statusResp' = NoResponse
    /\ UNCHANGED <<kernel, rbDir, now, dryRun, current, writer, man, ir,
                   ruleset, err, rbErr, pre, loads, rbCalls, last, usedOps, calls, goroutines, overlap>>
    /\ UNCHANGED <<watchVars, engineVars, trIR, texts, delta, dirFiles, parsed, records, handler>>

\* adapter.Status() lists the table and the deferred RUnlock runs.  When the
\* listing fails the handler answers "unknown"; otherwise it keeps the text
\* and goes on to h.svc.CurrentIR().
StatusHandler_Status(p) ==
    /\ pc[p] = "h_status_read"
    /\ readers' = readers \ {p}
    /\ LET listing == dumpCurrent(kernel)
       IN  IF listing.ok
           THEN /\ statusResp' = [statusResp EXCEPT !.ruleset = listing.text, !.irThen = current]
                /\ pc' = [pc EXCEPT ![p] = "h_currentir"]
           ELSE /\ statusResp' = [statusResp EXCEPT !.done = TRUE, !.status = "unknown"]
                /\ pc' = [pc EXCEPT ![p] = "idle"]
    /\ UNCHANGED <<kernel, rbDir, now, dryRun, current, writer, man, ir,
                   ruleset, err, rbErr, pre, loads, rbCalls, last, usedOps, calls, goroutines, overlap>>
    /\ UNCHANGED <<watchVars, engineVars, trIR, texts, delta, dirFiles, parsed, records, handler>>

\* h.svc.CurrentIR() takes s.mu.RLock() and reads s.current.
StatusHandler_CurrentIR(p) ==
    /\ pc[p] = "h_currentir"
    /\ CanRLock
    /\ readers' = readers \cup {p}
    /\ pc' = [pc EXCEPT ![p] = "h_currentir_read"]
    /\ statusResp' = [statusResp EXCEPT !.ir = current, !.liveThen = dumpCurrent(kernel).text]
    /\ UNCHANGED <<kernel, rbDir, now, dryRun, current, writer, man, ir,
                   ruleset, err, rbErr, pre, loads, rbCalls, last, usedOps, calls, goroutines, overlap>>
    /\ UNCHANGED <<watchVars, engineVars, trIR, texts, delta, dirFiles, parsed, records, handler>>

\* The deferred RUnlock of CurrentIR; the handler answers "active" with the
\* text and, when the IR is not nil, its id and version.
StatusHandler_Respond(p) ==
    /\ pc[p] = "h_currentir_read"
    /\ readers' = readers \ {p}
    /\ pc' = [pc EXCEPT ![p] = "idle"]
    /\ statusResp' = [statusResp EXCEPT !.done = TRUE, !.status = "active"]
    /\ UNCHANGED <<kernel, rbDir, now, dryRun, current, writer, man, ir,
                   ruleset, err, rbErr, pre, loads, rbCalls, last, usedOps, calls, goroutines, overlap>>
    /\ UNCHANGED <<watchVars, engineVars, trIR, texts, delta, dirFiles, parsed, records, handler>>

\* One handler goroutine applies, rolls back and flushes while another one
\* serves status requests.
StatusNext ==
    \/ Tick
    \/ \E m \in ManifestSets : ApplyManifests("g1", m)
    \/ Compile("g1")
    \/ ApplyIR_Lock("g1")
    \/ Apply_Translate("g1")
    \/ Apply_SaveRollback("g1")
    \/ Apply_TempFile("g1")
    \/ Apply_Load("g1")
    \/ Apply_Revert("g1")
    \/ ApplyIR_Commit("g1")
    \/ ApplyIR_Unlock("g1")
    \/ SvcRollback_Lock("g1")
    \/ SvcRollback_Body("g1")
    \/ SvcRollback_Unlock("g1")
    \/ SvcFlush_Lock("g1")
    \/ SvcFlush_Body("g1")
    \/ SvcFlush_Unlock("g1")
    \/ StatusHandler_RLock("g2")
    \/ StatusHandler_Status("g2")
    \/ StatusHandler_CurrentIR("g2")
    \/ StatusHandler_Respond("g2")

StatusSpec == Init /\ [][StatusNext]_vars

\* ─── Waiting for Service.mu ──────────────────────────────────────────────
\* The calls with the wait for the lock as a position of its own: a goroutine
\* that called Rollback, Flush, Status or CurrentIR is in s.mu.Lock() or
\* s.mu.RLock() until the mutex lets it in.
WaitPcs == [rollback |-> "rollback_lock", flush |-> "flush_lock",
            status |-> "status_rlock", currentir |-> "currentir_rlock"]

\* A goroutine calls Rollback or Flush and reaches s.mu.Lock().
CallMutator(p, op) ==
    /\ p \in goroutines
    /\ pc[p] = "idle"
    /\ calls < CallBudget
    /\ calls' = calls + 1
    /\ pc' = [pc EXCEPT ![p] = WaitPcs[op]]
    /\ UNCHANGED <<kernel, rbDir, now, dryRun, current, writer, readers, man, ir,
                   ruleset, err, rbErr, pre, loads, rbCalls, last, usedOps, goroutines, overlap>>
    /\ UNCHANGED <<watchVars, engineVars, toolVars>>

\* A goroutine calls Status or CurrentIR and reaches s.mu.RLock().
CallReader(p, op) ==
    /\ p \in goroutines
    /\ pc[p] = "idle"
    /\ pc' = [pc EXCEPT ![p] = WaitPcs[op]]
    /\ UNCHANGED <<kernel, rbDir, now, dryRun, current, writer, readers, man, ir,
                   ruleset, err, rbErr, pre, loads, rbCalls, last, usedOps, calls, goroutines, overlap>>
    /\ UNCHANGED <<watchVars, engineVars, toolVars>>

\* s.mu.Lock() of Rollback returns.
SvcRollback_Acquire(p) ==
    /\ pc[p] = "rollback_lock"
    /\ CanLock
    /\ writer' = p
    /\ pre' = [pre EXCEPT ![p] = [kernel |-> kernel, rbDir |-> rbDir, current |-> current]]
    /\ usedOps' = usedOps \cup {"rollback"}
    /\ pc' = [pc EXCEPT ![p] = "rollback_body"]
    /\ UNCHANGED <<kernel, rbDir, now, dryRun, current, readers, man, ir,
                   ruleset, err, rbErr, loads, rbCalls, last, calls, goroutines, overlap>>
    /\ UNCHANGED <<watchVars, engineVars, toolVars>>

\* s.mu.Lock() of Flush returns.
SvcFlush_Acquire(p) ==
    /\ pc[p] = "flush_lock"
    /\ CanLock
    /\ writer' = p
    /\ pre' = [pre EXCEPT ![p] = [kernel |-> kernel, rbDir |-> rbDir, current |-> current]]
    /\ usedOps' = usedOps \cup {"flush"}
    /\ pc' = [pc EXCEPT ![p] = "flush_body"]
    /\ UNCHANGED <<kernel, rbDir, now, dryRun, current, readers, man, ir,
                   ruleset, err, rbErr, loads, rbCalls, last, calls, goroutines, overlap>>
    /\ UNCHANGED <<watchVars, engineVars, toolVars>>

\* s.mu.RLock() of Status returns.
Status_Acquire(p) ==
    /\ pc[p] = "status_rlock"
    /\ CanRLock
    /\ readers' = readers \cup {p}
    /\ pc' = [pc EXCEPT ![p] = "status_read"]
    /\ UNCHANGED <<kernel, rbDir, now, dryRun, current, writer, man, ir,
                   ruleset, err, rbErr, pre, loads, rbCalls, last, usedOps, calls, goroutines, overlap>>
    /\ UNCHANGED <<watchVars, engineVars, toolVars>>

\* s.mu.RLock() of CurrentIR returns.
CurrentIR_Acquire(p) ==
    /\ pc[p] = "currentir_rlock"
    /\ CanRLock
    /\ readers' = readers \cup {p}
    /\ pc' = [pc EXCEPT ![p] = "currentir_read"]
    /\ UNCHANGED <<kernel, rbDir, now, dryRun, current, writer, man, ir,
                   ruleset, err, rbErr, pre, loads, rbCalls, last, usedOps, calls, goroutines, overlap>>
    /\ UNCHANGED <<watchVars, engineVars, toolVars>>

\* The steps of goroutine p that the mutex lets through: sync.RWMutex hands
\* the lock to a goroutine that waits for it.
AcquireOf(p) ==
    \/ ApplyIR_Lock(p)
    \/ SvcRollback_Acquire(p)
    \/ SvcFlush_Acquire(p)
    \/ Status_Acquire(p)
    \/ CurrentIR_Acquire(p)

\* The steps of goroutine p inside a call that wait for nothing but the
\* scheduler and the subprocess they run.
StepOf(p) ==
    \/ ParseDir(p)
    \/ Compile(p)
    \/ Apply_Translate(p)
    \/ Apply_SaveRollback(p)
    \/ Apply_TempFile(p)
    \/ Apply_Load(p)
    \/ Apply_Revert(p)
    \/ ApplyIR_Commit(p)
    \/ ApplyIR_Unlock(p)
    \/ SvcRollback_Body(p)
    \/ SvcRollback_Unlock(p)
    \/ SvcFlush_Body(p)
    \/ SvcFlush_Unlock(p)
    \/ Status_Read(p)
    \/ CurrentIR_Read(p)

\* The goroutines of the HTTP handlers.
Handlers == {"g1", "g2"}

LockNext ==
    \E p \in Handlers :
          \/ ApplyPolicyDir(p)
          \/ \E m \in ManifestSets : ApplyManifests(p, m)
          \/ \E op \in {"rollback", "flush"} : CallMutator(p, op)
          \/ \E op \in {"status", "currentir"} : CallReader(p, op)
          \/ AcquireOf(p)
          \/ StepOf(p)

\* The scheduler runs every goroutine that can take a step, the subprocesses
\* return, and the mutex lets in every goroutine that waits for it.
LockFairness == \A p \in Handlers : WF_vars(StepOf(p)) /\ SF_vars(AcquireOf(p))

LockSpec == Init /\ [][LockNext]_vars /\ LockFairness

\* ─── Service.WatchAndReload and run() ───────────────────────────────────
\* The wakes a run of the watcher may make.
MaxWakes == 3

svcVars == <<kernel, rbDir, now, dryRun, current, writer, readers, pc, man, ir,
             ruleset, err, rbErr, pre, loads, rbCalls, last, usedOps, overlap, calls,
             goroutines>>

\* cfg.Firewall.HotReload is on: run() has started WatchAndReload, which has
\* made its ticker and waits in the select.
WatchInit ==
    /\ InitService /\ rbDir = NoDir /\ goroutines = {}
    /\ policyDir \in PolicyDirs
    /\ ticker = FALSE
    /\ cancelled = FALSE
    /\ watcher = "select"
    /\ main = "serving"
    /\ dirEdited = FALSE
    /\ NoEngine /\ NoTools

\* The process has not exited: its goroutines run.
Alive == main # "exited"

\* The runtime timer sends on ticker.C, a channel that holds one tick; a tick
\* that finds the channel full is dropped.
Ticker_Fire ==
    /\ Alive
    /\ watcher \in {"select", "apply"}
    /\ ~ticker
    /\ ticker' = TRUE
    /\ UNCHANGED <<svcVars, policyDir, cancelled, watcher, main, dirEdited, engineVars, toolVars>>

\* An operator changes the files of the policy directory.
EditPolicyDir ==
    /\ Alive
    /\ \E d \in PolicyDirs \ {policyDir} : policyDir' = d
    /\ dirEdited' = TRUE
    /\ UNCHANGED <<svcVars, ticker, cancelled, watcher, main, engineVars, toolVars>>

\* WatchAndReload: the select takes `case <-ticker.C` and calls
\* ApplyPolicyDir.  When ctx.Done() is ready too, the select picks one of the
\* ready cases at random, so this case may be the one taken.
Watcher_Wake ==
    /\ Alive
    /\ watcher = "select"
    /\ ticker
    /\ calls < MaxWakes
    /\ ticker' = FALSE
    /\ watcher' = "apply"
    /\ calls' = calls + 1
    /\ pc' = [pc EXCEPT ![Watcher] = "parsedir"]
    /\ dirEdited' = FALSE
    /\ UNCHANGED <<kernel, rbDir, now, dryRun, current, writer, readers, man, ir,
                   ruleset, err, rbErr, pre, loads, rbCalls, last, usedOps, overlap,
                   goroutines, policyDir, cancelled, main, engineVars, toolVars>>

\* WatchAndReload that leaves the loop when ApplyPolicyDir has returned.
Watcher_Continue_Once ==
    /\ Alive
    /\ watcher = "apply"
    /\ pc[Watcher] = "idle"
    /\ watcher' = "returned"
    /\ UNCHANGED <<svcVars, policyDir, ticker, cancelled, main, dirEdited, engineVars, toolVars>>

\* WatchAndReload: ApplyPolicyDir has returned; an error is logged and the
\* loop goes back to the select.
Watcher_Continue ==
    /\ Alive
    /\ watcher = "apply"
    /\ pc[Watcher] = "idle"
    /\ watcher' = "select"
    /\ UNCHANGED <<svcVars, policyDir, ticker, cancelled, main, dirEdited, engineVars, toolVars>>

\* WatchAndReload: the select takes `case <-ctx.Done()` and returns; the
\* deferred ticker.Stop() runs.
Watcher_Return ==
    /\ Alive
    /\ watcher = "select"
    /\ cancelled
    /\ watcher' = "returned"
    /\ ticker' = FALSE
    /\ UNCHANGED <<svcVars, policyDir, cancelled, main, dirEdited, engineVars, toolVars>>

\* run(): a signal arrives on sigCh; srv.Shutdown is called.
Main_Signal ==
    /\ main = "serving"
    /\ main' = "shutdown"
    /\ UNCHANGED <<svcVars, policyDir, ticker, cancelled, watcher, dirEdited, engineVars, toolVars>>

\* run(): srv.Shutdown has returned and run() returns; the deferred
\* cancelReload() cancels the watcher's context.
Main_Return ==
    /\ main = "shutdown"
    /\ main' = "returned"
    /\ cancelled' = TRUE
    /\ UNCHANGED <<svcVars, policyDir, ticker, watcher, dirEdited, engineVars, toolVars>>

\* main() returns: the process exits and every goroutine stops where it is.
Main_Exit ==
    /\ main = "returned"
    /\ main' = "exited"
    /\ UNCHANGED <<svcVars, policyDir, ticker, cancelled, watcher, dirEdited, engineVars, toolVars>>

WatchNext ==
    \/ Ticker_Fire
    \/ EditPolicyDir
    \/ Watcher_Wake
    \/ Watcher_Continue
    \/ Watcher_Return
    \/ Main_Signal
    \/ Main_Return
    \/ Main_Exit
    \/ Alive /\ ParseDir(Watcher)
    \/ Alive /\ Compile(Watcher)
    \/ Alive /\ ApplyIR_Lock(Watcher)
    \/ Alive /\ Apply_Translate(Watcher)
    \/ Alive /\ Apply_SaveRollback(Watcher)
    \/ Alive /\ Apply_TempFile(Watcher)
    \/ Alive /\ Apply_Load(Watcher)
    \/ Alive /\ Apply_Revert(Watcher)
    \/ Alive /\ ApplyIR_Commit(Watcher)
    \/ Alive /\ ApplyIR_Unlock(Watcher)

WatchSpec == WatchInit /\ [][WatchNext]_vars

\* ─── policy.Engine and policy.Validator ─────────────────────────────────
MaxManifests == 2   \* manifests in the list given to Compile
MaxRuns == 2        \* Compile runs on the same list

\* Rules of a FirewallPolicy: Priority 0 is "not set"; "PERMIT" is no action
\* the validator knows.  ZoneRule names the zones of the source and of the
\* destination selector; Rule names none.
ZoneRule(prio, action, src, dst) ==
    [Priority |-> prio, Action |-> action, SrcZones |-> src, DstZones |-> dst]

Rule(prio, action) == ZoneRule(prio, action, {}, {})

RuleLists ==
    { <<>>,
      <<Rule(0, "ALLOW")>>,
      <<Rule(100, "DROP")>>,
      <<Rule(0, "ALLOW"), Rule(100, "DROP")>>,
      <<Rule(300, "DROP"), Rule(0, "ALLOW")>>,
      <<Rule(0, "PERMIT")>>,
      <<Rule(0, "PERMIT"), Rule(100, "PERMIT")>> }

\* FirewallPolicy manifests: metadata.name (empty = missing), the rules and
\* the default action (empty = none).
ManifestChoices ==
    {[Name |-> n, Rules |-> rs, DefaultAction |-> da] :
        n \in {"", "web"}, rs \in RuleLists, da \in {"", "DROP"}}

ValidActions == {"ALLOW", "DROP", "REJECT", "LOG"}

RECURSIVE validateRules(_, _, _)
\* Validator.validateFirewall, the loop over the rules from index i on: one
\* error for each rule whose action is not valid.
validateRules(name, rules, i) ==
    IF i > Len(rules) THEN <<>>
    ELSE (IF rules[i].Action \notin ValidActions
          THEN << [ctx |-> name, rule |-> i, msg |-> "invalid action"] >>
          ELSE <<>>)
         \o validateRules(name, rules, i + 1)

\* Validator.Validate on a FirewallPolicy: the errors found, in order.
Validate(m) ==
    (IF m.Name = ""
     THEN << [ctx |-> m.Name, rule |-> 0, msg |-> "metadata.name is required"] >>
     ELSE <<>>)
    \o (IF m.DefaultAction # "" /\ m.DefaultAction \notin ValidActions
        THEN << [ctx |-> m.Name, rule |-> 0, msg |-> "invalid defaultAction"] >>
        ELSE <<>>)
    \o validateRules(m.Name, m.Rules, 1)

RECURSIVE ValidateAllErrors_FirstOnly(_)
\* Validator.ValidateAll that returns at the first manifest with errors.
ValidateAllErrors_FirstOnly(ms) ==
    IF ms = <<>> THEN <<>>
    ELSE IF Validate(Head(ms)) # <<>> THEN Validate(Head(ms))
    ELSE ValidateAllErrors_FirstOnly(Tail(ms))

RECURSIVE ValidateAllErrors(_)
\* Validator.ValidateAll: the errors of every manifest, appended in order; an
\* empty list is the nil result.
ValidateAllErrors(ms) ==
    IF ms = <<>> THEN <<>>
    ELSE Validate(Head(ms)) \o ValidateAllErrors(Tail(ms))

normalizeAction(a) ==
    CASE a \in {"ALLOW", "allow", "ACCEPT", "accept"} -> "accept"
      [] a \in {"DROP", "drop"}                       -> "drop"
      [] a \in {"REJECT", "reject"}                   -> "reject"
      [] a \in {"LOG", "log"}                         -> "log"
      [] OTHER                                        -> "drop"

hasZone(zones, target) == target \in zones

\* The chain compileFirewall would give a rule if it looked at the source
\* zones first.
chainOf_SourceFirst(r) ==
    IF hasZone(r.SrcZones, "localhost") THEN "output"
    ELSE IF hasZone(r.DstZones, "localhost") THEN "input"
    ELSE "forward"

\* compileFirewall, the chain of a rule: "forward" unless a selector names
\* the zone localhost; then "input" if the destination does, else "output".
chainOf(r) ==
    IF hasZone(r.SrcZones, "localhost") \/ hasZone(r.DstZones, "localhost")
    THEN IF hasZone(r.DstZones, "localhost") THEN "input" ELSE "output"
    ELSE "forward"

RECURSIVE compileRules(_, _, _)
\* Engine.compileFirewall, the loop over the rules from index i on (i counts
\* from 1, the code's index from 0): a rule without priority gets i * 100.
compileRules(m, mi, i) ==
    IF i > Len(m.Rules) THEN <<>>
    ELSE << [Priority |-> IF m.Rules[i].Priority = 0 THEN i * 100 ELSE m.Rules[i].Priority,
             Chain    |-> chainOf(m.Rules[i]),
             Action   |-> normalizeAction(m.Rules[i].Action),
             Comment  |-> <<m.Name, i>>] >>
         \o compileRules(m, mi, i + 1)

\* Engine.compileFirewall on the manifest at place mi of the list: its rules,
\* then the catch-all rule of the default action.  The comment names the
\* manifest and the rule (a rule is named by its place, the catch-all by 0).
compileFirewall(m, mi) ==
    compileRules(m, mi, 1)
    \o (IF m.DefaultAction # ""
        THEN << [Priority |-> 99999, Chain |-> "forward",
                 Action |-> normalizeAction(m.DefaultAction),
                 Comment |-> <<m.Name, 0>>] >>
        ELSE <<>>)

RECURSIVE appendRules(_, _)
\* Engine.Compile, the loop over the manifests from place mi on:
\* ir.FirewallRules = append(ir.FirewallRules, rules...).
appendRules(ms, mi) ==
    IF mi > Len(ms) THEN <<>>
    ELSE compileFirewall(ms[mi], mi) \o appendRules(ms, mi + 1)

RECURSIVE InsertSorted(_, _, _)
\* The place sort.Slice gives x among the sorted elements acc: by priority,
\* and among equal priorities as the build's algorithm leaves them.
InsertSorted(x, acc, t) ==
    IF acc = <<>> THEN <<x>>
    ELSE IF \/ (t = "input_order" /\ Head(acc).Priority <= x.Priority)
            \/ (t = "reversed" /\ Head(acc).Priority < x.Priority)
         THEN <<Head(acc)>> \o InsertSorted(x, Tail(acc), t)
         ELSE <<x>> \o acc

RECURSIVE SortSlice(_, _)
\* sort.Slice(rules, less by Priority): sorted by priority.  "The sort is not
\* guaranteed to be stable" (package sort): the order of elements that
\* compare equal is whatever the algorithm gives on this input, t.
SortSlice(rules, t) ==
    IF rules = <<>> THEN <<>>
    ELSE InsertSorted(rules[Len(rules)], SortSlice(SubSeq(rules, 1, Len(rules) - 1), t), t)

\* The orders a build's sort.Slice may leave between equal elements.
TieOrders == {"input_order", "reversed"}

\* uuid.NewString() that hands out the same identifier again.
NewString_Repeats(u) == 1

\* uuid.NewString(): 122 random bits; the value differs from every value
\* handed out before.  u counts the values handed out.
NewString(u) == u + 1

NoRun == [ok |-> FALSE, errors |-> <<>>, ID |-> 0, Version |-> 0, FirewallRules |-> <<>>]

\* Engine.Compile on ms at time t, with u identifiers handed out before.
EngineCompile(ms, u, t, tieOrder) ==
    LET errs == ValidateAllErrors(ms)
    IN  IF errs # <<>>
        THEN [NoRun EXCEPT !.errors = errs]
        ELSE [ok |-> TRUE, errors |-> <<>>, ID |-> NewString(u), Version |-> t,
              FirewallRules |-> SortSlice(appendRules(ms, 1), tieOrder)]

\* A caller holds a manifest list; the build's sort is what it is.
EngineInit ==
    /\ InitService /\ rbDir = NoDir /\ goroutines = {}
    /\ policyDir = BrokenDir /\ NoWatcher
    /\ manifests \in UNION {[1..n -> ManifestChoices] : n \in 0..MaxManifests}
    /\ tie \in TieOrders
    /\ irs = <<>>
    /\ uuids = 0
    /\ NoTools

\* One run of Engine.Compile on the list.
Engine_Compile ==
    /\ Len(irs) < MaxRuns
    /\ LET r == EngineCompile(manifests, uuids, now, tie)
       IN  /\ irs' = Append(irs, r)
           /\ uuids' = IF r.ok THEN uuids + 1 ELSE uuids
    /\ UNCHANGED <<svcVars, watchVars, manifests, tie, toolVars>>

EngineNext == Tick \/ Engine_Compile

EngineSpec == EngineInit /\ [][EngineNext]_vars

\* Rules that set a priority below, at and above zero and name zones.
MaxZoneRules == 2   \* rules of the manifest given to Compile

ZoneRules ==
    {ZoneRule(prio, a, src, dst) :
        prio \in {-5, 0, 250}, a \in {"ALLOW", "LOG"},
        src \in {{}, {"localhost"}}, dst \in {{"lan"}, {"lan", "localhost"}}}

ZoneManifests ==
    {[Name |-> "web", Rules |-> rs, DefaultAction |-> da] :
        rs \in UNION {[1..n -> ZoneRules] : n \in 0..MaxZoneRules}, da \in {"", "REJECT"}}

\* A caller holds one manifest whose rules name zones and priorities.
ZoneInit ==
    /\ InitService /\ ~dryRun /\ rbDir = NoDir /\ goroutines = {}
    /\ policyDir = BrokenDir /\ NoWatcher
    /\ manifests \in {<<m>> : m \in ZoneManifests}
    /\ tie \in TieOrders
    /\ irs = <<>>
    /\ uuids = 0
    /\ NoTools

ZoneSpec == ZoneInit /\ [][Engine_Compile]_vars

\* Rules whose priority is not set, small, that of the catch-all rule, and
\* above it; the validator looks at no priority.
PriorityRules == {Rule(prio, "ALLOW") : prio \in {0, 250, 99999, 100000}}

PriorityManifests ==
    {[Name |-> "web", Rules |-> rs, DefaultAction |-> da] :
        rs \in UNION {[1..n -> PriorityRules] : n \in 0..MaxZoneRules}, da \in {"", "DROP"}}

\* A caller holds one manifest whose rules set any priority.
PriorityInit ==
    /\ InitService /\ ~dryRun /\ rbDir = NoDir /\ goroutines = {}
    /\ policyDir = BrokenDir /\ NoWatcher
    /\ manifests \in {<<m>> : m \in PriorityManifests}
    /\ tie \in TieOrders
    /\ irs = <<>>
    /\ uuids = 0
    /\ NoTools

PrioritySpec == PriorityInit /\ [][Engine_Compile]_vars

\* ─── Protocols and ports: validator, engine, translator ─────────────────
\* A rule of a FirewallPolicy with its protocol, the ports of its source
\* selector and the ports and port ranges of its destination selector.
PortRule(proto, sports, dports, dranges) ==
    [Name |-> "r", Action |-> "ALLOW", Protocol |-> proto,
     SrcPorts |-> sports, DstPorts |-> dports, DstPortRanges |-> dranges]

PortRange(start, end) == [Start |-> start, End |-> end]

\* "gre" is no protocol the validator knows; port 0 and the range 9000-9000
\* are out of range.
PortRules ==
    {PortRule(proto, sp, dp, dr) :
        proto \in {"tcp", "udp", "icmp", "any", "", "gre"},
        sp \in {<<>>, <<53>>},
        dp \in {<<>>, <<22>>, <<80, 443>>, <<0>>},
        dr \in {<<>>, <<PortRange(8000, 8080)>>, <<PortRange(9000, 9000)>>}}

validProtocols == {"tcp", "udp", "icmp", "any", "ANY", ""}

\* Validator.validateFirewall on one rule: the checks of the protocol, the
\* ports and the port ranges.
validatePortRule(r) ==
    LET ports  == r.SrcPorts \o r.DstPorts
        ranges == r.DstPortRanges
        Bad(q)      == q < 1 \/ q > 65535
        BadRange(g) == g.Start >= g.End
    IN  (IF r.Protocol \notin validProtocols
         THEN << [ctx |-> r.Name, rule |-> 1, msg |-> "invalid protocol"] >> ELSE <<>>)
        \o [k \in 1..Len(SelectSeq(ports, Bad)) |->
               [ctx |-> r.Name, rule |-> 1, msg |-> "port out of range"]]
        \o [k \in 1..Len(SelectSeq(ranges, BadRange)) |->
               [ctx |-> r.Name, rule |-> 1, msg |-> "portRange start >= end"]]

normalizeProtocol(proto) == IF proto \in {"any", "ANY", ""} THEN "" ELSE proto

\* compilePorts: the decimal text of each port, then "start-end" of each
\* range; a text is written here as the pair of numbers it spells (a single
\* port spells its number twice).
compilePorts(ports, ranges) ==
    [k \in 1..Len(ports) |-> [Start |-> ports[k], End |-> ports[k]]]
    \o [k \in 1..Len(ranges) |-> [Start |-> ranges[k].Start, End |-> ranges[k].End]]

\* compileFirewall on the rule: protocol and ports of the compiled rule.
compilePortRule(r) ==
    [Protocol |-> normalizeProtocol(r.Protocol),
     Action   |-> normalizeAction(r.Action),
     SrcPorts |-> compilePorts(r.SrcPorts, <<>>),
     DstPorts |-> compilePorts(r.DstPorts, r.DstPortRanges)]

\* One part of a statement: the words before the keyword (the protocol of a
\* port match), the keyword and what follows it.
Part(proto, kw, args) == [proto |-> proto, kw |-> kw, args |-> args]

\* translateFirewallRule: the protocol match, the port matches and the
\* verdict of the statement, in this order.
translatePortRule(c) ==
    (IF c.Protocol # "" THEN << Part("", "meta l4proto", <<>>) >> ELSE <<>>)
    \o (IF Len(c.SrcPorts) >= 1 THEN << Part(c.Protocol, "sport", c.SrcPorts) >> ELSE <<>>)
    \o (IF Len(c.DstPorts) >= 1 THEN << Part(c.Protocol, "dport", c.DstPorts) >> ELSE <<>>)
    \o << Part("", c.Action, <<>>) >>

\* Compile and Translate on a manifest that holds the one rule r.
CompileAndTranslate(r) ==
    LET errs == validatePortRule(r)
    IN  IF errs # <<>>
        THEN [ok |-> FALSE, errors |-> errs, rule |-> r, stmt |-> <<>>]
        ELSE [ok |-> TRUE, errors |-> <<>>, rule |-> r,
              stmt |-> translatePortRule(compilePortRule(r))]

\* A caller holds one manifest with one rule.
PortInit ==
    /\ InitService /\ ~dryRun /\ rbDir = NoDir /\ goroutines = {}
    /\ policyDir = BrokenDir /\ NoWatcher
    /\ manifests \in {<<r>> : r \in PortRules}
    /\ tie = "input_order"
    /\ irs = <<>>
    /\ uuids = 0
    /\ NoTools

\* One run of Compile and Translate on the manifest.
Port_Compile ==
    /\ Len(irs) < MaxRuns
    /\ irs' = Append(irs, CompileAndTranslate(manifests[1]))
    /\ UNCHANGED <<svcVars, watchVars, manifests, tie, uuids, toolVars>>

PortSpec == PortInit /\ [][Port_Compile]_vars

\* ─── NAT rules: validator, engine, translator ───────────────────────────
MaxNatRules == 2    \* rules of the NATPolicy given to Compile

\* A rule of a NATPolicy without source, destination and interface: its type
\* and its two translated-to addresses (empty = not set).
NATRule(type, toSource, toDest) == [Type |-> type, ToSource |-> toSource, ToDest |-> toDest]

\* "REDIRECT" is no type the validator knows.
NATRules ==
    {NATRule(type, ts, td) :
        type \in {"SNAT", "DNAT", "MASQUERADE", "REDIRECT"},
        ts \in {"", "192.0.2.1"}, td \in {"", "10.0.0.5"}}

validTypes == {"SNAT", "DNAT", "MASQUERADE"}

\* Validator.validateNAT: one error for each rule whose type is not valid.
validateNAT(rules) ==
    LET BadType(r) == r.Type \notin validTypes
    IN  [k \in 1..Len(SelectSeq(rules, BadType)) |->
            [ctx |-> "nat", rule |-> k, msg |-> "invalid type"]]

\* Engine.compileNAT: one compiled rule for each rule, in order; ToAddr is
\* the rule's ToDest.
compileNAT(rules) ==
    [k \in 1..Len(rules) |-> [Type |-> rules[k].Type, ToAddr |-> rules[k].ToDest]]

\* Compile and Translate on a NATPolicy with these rules: the compiled rules
\* and, for each, the statements Translate files for it.
CompileAndTranslateNAT(rules) ==
    LET errs == validateNAT(rules)
        nat  == compileNAT(rules)
    IN  IF errs # <<>>
        THEN [ok |-> FALSE, errors |-> errs, NATRules |-> <<>>, stmts |-> <<>>]
        ELSE [ok |-> TRUE, errors |-> <<>>, NATRules |-> nat,
              stmts |-> [k \in 1..Len(nat) |->
                            NatStmtsOf(<<nat[k]>>, "prerouting")
                            \o NatStmtsOf(<<nat[k]>>, "postrouting")]]

\* A caller holds one NATPolicy.
NatInit ==
    /\ InitService /\ ~dryRun /\ rbDir = NoDir /\ goroutines = {}
    /\ policyDir = BrokenDir /\ NoWatcher
    /\ manifests \in UNION {[1..n -> NATRules] : n \in 0..MaxNatRules}
    /\ tie = "input_order"
    /\ irs = <<>>
    /\ uuids = 0
    /\ NoTools

\* One run of Compile and Translate on the policy.
Nat_Compile ==
    /\ Len(irs) < MaxRuns
    /\ irs' = Append(irs, CompileAndTranslateNAT(manifests))
    /\ UNCHANGED <<svcVars, watchVars, manifests, tie, uuids, toolVars>>

NatSpec == NatInit /\ [][Nat_Compile]_vars

\* ─── Adapter.Translate and Adapter.Diff ─────────────────────────────────
MaxRules == 3       \* firewall and NAT rules of the IR given to Translate
MaxTranslates == 2  \* Translate calls on the same IR
MaxSeconds == 1     \* whole seconds that pass during a run

\* Compiled firewall rules (chain and translated statement) and compiled NAT
\* rules an IR of the engine may hold.
TrFirewallRules ==
    { [Chain |-> "input",   Stmt |-> "tcp dport 22 accept"],
      [Chain |-> "forward", Stmt |-> "tcp dport 22 accept"],
      [Chain |-> "forward", Stmt |-> "ip saddr 10.0.0.0/8 drop"],
      [Chain |-> "output",  Stmt |-> "ip saddr 10.0.0.0/8 drop"] }

TrNATRules ==
    { [Type |-> "DNAT",       ToAddr |-> "10.0.0.5"],
      [Type |-> "SNAT",       ToAddr |-> "10.0.0.5"],
      [Type |-> "MASQUERADE", ToAddr |-> ""] }

SeqsUpTo(S, n) == UNION {[1..k -> S] : k \in 0..n}

TrIRs ==
    {[Version |-> 1, Manifests |-> None, FirewallRules |-> f, NATRules |-> n] :
        f \in SeqsUpTo(TrFirewallRules, MaxRules),
        n \in SeqsUpTo(TrNATRules, MaxRules)}

\* A caller holds an IR of the engine; the table is absent.
TranslateInit ==
    /\ InitService /\ ~dryRun /\ rbDir = NoDir /\ goroutines = {}
    /\ policyDir = BrokenDir /\ NoWatcher /\ NoEngine
    /\ trIR \in {i \in TrIRs : Len(i.FirewallRules) + Len(i.NATRules) <= MaxRules}
    /\ texts = <<>>
    /\ delta = NoDelta
    /\ dirFiles = <<>>
    /\ parsed = NotParsed
    /\ records = <<>>
    /\ handler = NoRequest
    /\ statusResp = NoResponse

\* A second passes.
SecondPasses ==
    /\ now + MsPerSecond <= MaxSeconds * MsPerSecond + MaxClock
    /\ now' = now + MsPerSecond
    /\ UNCHANGED <<kernel, rbDir, dryRun, current, writer, readers, pc, man, ir,
                   ruleset, err, rbErr, pre, loads, rbCalls, last, usedOps, calls, goroutines, overlap>>
    /\ UNCHANGED <<watchVars, engineVars, toolVars>>

\* One call of Adapter.Translate on the IR.
Tr_Translate ==
    /\ Len(texts) < MaxTranslates
    /\ texts' = Append(texts, Translate(trIR, now))
    /\ UNCHANGED <<svcVars, watchVars, engineVars, trIR, delta, dirFiles, statusResp, parsed, records, handler>>

\* `nft -f` on a file that holds the text of an earlier Translate call, while
\* the table is absent.
Tr_Load ==
    /\ ~kernel.present
    /\ \E k \in 1..Len(texts) : kernel' = NftLoad(kernel, texts[k]).kernel
    /\ UNCHANGED <<rbDir, now, dryRun, current, writer, readers, pc, man, ir,
                   ruleset, err, rbErr, pre, loads, rbCalls, last, usedOps, calls, goroutines, overlap>>
    /\ UNCHANGED <<watchVars, engineVars, toolVars>>

\* One call of Adapter.Diff on the IR.
Tr_Diff ==
    /\ delta' = [done |-> TRUE, live |-> kernel.present, at |-> now,
                 out |-> Diff(kernel, trIR, now)]
    /\ UNCHANGED <<svcVars, watchVars, engineVars, trIR, texts, dirFiles, statusResp, parsed, records, handler>>

TranslateNext == SecondPasses \/ Tr_Translate \/ Tr_Load \/ Tr_Diff

TranslateSpec == TranslateInit /\ [][TranslateNext]_vars

\* ─── Parser.ParseDir ─────────────────────────────────────────────────────
\* File names of a directory: base name and extension.
FileName(base, ext) == [base |-> base, ext |-> ext]

FileNames ==
    { FileName("a", "yaml"), FileName("b", "yml"), FileName("c", "yaml"),
      FileName("c", "yml"),  FileName("b", "txt") }

\* sort.Strings on the names: byte order of "base.ext"; among the extensions
\* "txt" < "yaml" < "yml".
NameLess(x, y) ==
    LET ExtRank(e) == CASE e = "txt" -> 1 [] e = "yaml" -> 2 [] e = "yml" -> 3
        BaseRank(b) == CASE b = "a" -> 1 [] b = "b" -> 2 [] b = "c" -> 3
    IN  \/ BaseRank(x.base) < BaseRank(y.base)
        \/ x.base = y.base /\ ExtRank(x.ext) < ExtRank(y.ext)

RECURSIVE SortStrings(_)
SortStrings(S) ==
    IF S = {} THEN <<>>
    ELSE LET least == CHOOSE x \in S : \A y \in S \ {x} : NameLess(x, y)
         IN  <<least>> \o SortStrings(S \ {least})

\* filepath.Glob(dir/*.ext): the names of the directory that end in .ext, sorted.
Glob(files, ext) == SortStrings({n \in DOMAIN files : n.ext = ext})

RECURSIVE ParseFilesIn(_, _)
\* The loop of ParseDir over the matches of one pattern: the manifests of the
\* files in order, or the failure of the first file that does not parse.
\* A file that parses holds one manifest, named here by the file.
ParseFilesIn(files, paths) ==
    IF paths = <<>> THEN [ok |-> TRUE, manifests |-> <<>>]
    ELSE IF files[Head(paths)] = "broken" THEN [ok |-> FALSE, manifests |-> <<>>]
    ELSE LET rest == ParseFilesIn(files, Tail(paths))
         IN  IF rest.ok THEN [ok |-> TRUE, manifests |-> <<Head(paths)>> \o rest.manifests]
             ELSE rest

\* Parser.ParseDir: the pattern *.yaml, then the pattern *.yml.
ParseDirOf(files) ==
    LET yaml == ParseFilesIn(files, Glob(files, "yaml"))
        yml  == ParseFilesIn(files, Glob(files, "yml"))
    IN  IF yaml.ok /\ yml.ok
        THEN [done |-> TRUE, ok |-> TRUE, manifests |-> yaml.manifests \o yml.manifests]
        ELSE [done |-> TRUE, ok |-> FALSE, manifests |-> <<>>]

\* A directory holds some of the files; each parses or does not.
ParseInit ==
    /\ InitService /\ ~dryRun /\ rbDir = NoDir /\ goroutines = {}
    /\ policyDir = BrokenDir /\ NoWatcher /\ NoEngine
    /\ trIR = NoIR /\ texts = <<>> /\ delta = NoDelta
    /\ dirFiles \in UNION {[S -> {"parses", "broken"}] : S \in SUBSET FileNames}
    /\ parsed = NotParsed
    /\ records = <<>>
    /\ handler = NoRequest
    /\ statusResp = NoResponse

\* One call of ParseDir on the directory.
Parse_Dir ==
    /\ ~parsed.done
    /\ parsed' = ParseDirOf(dirFiles)
    /\ UNCHANGED <<svcVars, watchVars, engineVars, trIR, texts, delta, dirFiles, statusResp, records, handler>>

ParseSpec == ParseInit /\ [][Parse_Dir]_vars

\* ─── PolicyHandler.Apply and the PolicyStore ────────────────────────────
MaxRequests == 2    \* apply-by-id requests of a run

\* The ids of the stored policies, and an id no policy has.
RecordIds == {1, 2}
UnknownId == 3

\* The RawYAML of a record: a document that parses to the manifests mA, mBad
\* or mInvalid, a text that does not parse, or nothing (the policy was stored
\* with its JSON spec only).
RawYAMLs == {"mA", "mBad", "mInvalid", "unparseable", ""}

\* parseRecordToManifests: ParseReader on RawYAML; without RawYAML, nil
\* manifests and no error.  "mEmpty" is the empty manifest list.
parseRecordToManifests(yaml) ==
    IF yaml = "" THEN [ok |-> TRUE, manifests |-> "mEmpty"]
    ELSE IF yaml = "unparseable" THEN [ok |-> FALSE, manifests |-> None]
    ELSE [ok |-> TRUE, manifests |-> yaml]

\* The store holds two policies, neither applied yet (applied_at is NULL,
\* here 0); one handler goroutine serves the requests.
StoreInit ==
    /\ InitService /\ rbDir = NoDir /\ goroutines = {"g1"}
    /\ policyDir = BrokenDir /\ NoWatcher /\ NoEngine
    /\ trIR = NoIR /\ texts = <<>> /\ delta = NoDelta
    /\ dirFiles = <<>> /\ parsed = NotParsed
    /\ records \in [RecordIds -> [yaml : RawYAMLs, appliedAt : {0}]]
    /\ handler = NoRequest
    /\ statusResp = NoResponse

\* POST /policies/:id/apply arrives: store.Get; an unknown id is answered 404.
Handler_Get(id) ==
    /\ handler.stage = "none"
    /\ calls < MaxRequests
    /\ calls' = calls + 1
    /\ handler' = IF id \in DOMAIN records
                  THEN [stage |-> "parse", id |-> id, yaml |-> records[id].yaml, resp |-> 0]
                  ELSE [stage |-> "none", id |-> id, yaml |-> None, resp |-> 404]
    /\ UNCHANGED <<kernel, rbDir, now, dryRun, current, writer, readers, pc, man, ir,
                   ruleset, err, rbErr, pre, loads, rbCalls, last, usedOps, overlap, goroutines>>
    /\ UNCHANGED <<watchVars, engineVars, trIR, texts, delta, dirFiles, statusResp, parsed, records>>

\* parseRecordToManifests; a parse error is answered 400; otherwise the
\* handler calls firewallSvc.ApplyManifests.
Handler_Parse ==
    /\ handler.stage = "parse"
    /\ LET r == parseRecordToManifests(handler.yaml)
       IN  IF r.ok
           THEN /\ man' = [man EXCEPT !["g1"] = r.manifests]
                /\ pc' = [pc EXCEPT !["g1"] = "compile"]
                /\ handler' = [handler EXCEPT !.stage = "applying"]
           ELSE /\ handler' = [handler EXCEPT !.stage = "none", !.resp = 400]
                /\ UNCHANGED <<man, pc>>
    /\ UNCHANGED <<kernel, rbDir, now, dryRun, current, writer, readers, ir,
                   ruleset, err, rbErr, pre, loads, rbCalls, last, usedOps, overlap, calls,
                   goroutines>>
    /\ UNCHANGED <<watchVars, engineVars, trIR, texts, delta, dirFiles, statusResp, parsed, records>>

\* engine.Compile inside ApplyManifests; on a validation error ApplyManifests
\* returns it and the handler answers 500.
Handler_Compile ==
    /\ handler.stage = "applying"
    /\ pc["g1"] = "compile"
    /\ IF ValidateAll(man["g1"])
       THEN /\ ir' = [ir EXCEPT !["g1"] = CompileIR(man["g1"], now)]
            /\ pc' = [pc EXCEPT !["g1"] = "applyir"]
            /\ UNCHANGED <<man, handler>>
       ELSE /\ pc' = [pc EXCEPT !["g1"] = "idle"]
            /\ man' = [man EXCEPT !["g1"] = None]
            /\ handler' = [handler EXCEPT !.stage = "none", !.resp = 500]
            /\ UNCHANGED ir
    /\ UNCHANGED <<kernel, rbDir, now, dryRun, current, writer, readers,
                   ruleset, err, rbErr, pre, loads, rbCalls, last, usedOps, overlap, calls,
                   goroutines>>
    /\ UNCHANGED <<watchVars, engineVars, trIR, texts, delta, dirFiles, statusResp, parsed, records>>

\* ApplyManifests returns to a handler that goes on to MarkApplied whatever
\* the result.
Handler_ApplyReturns_MarksAlways ==
    /\ handler.stage = "applying"
    /\ pc["g1"] = "applyir_unlock"
    /\ writer' = None
    /\ last' = [op |-> "apply", err |-> err["g1"], preKernel |-> pre["g1"].kernel,
                man |-> man["g1"]]
    /\ pc' = [pc EXCEPT !["g1"] = "idle"]
    /\ man' = [man EXCEPT !["g1"] = None]
    /\ ir' = [ir EXCEPT !["g1"] = NoIR]
    /\ ruleset' = [ruleset EXCEPT !["g1"] = NoText]
    /\ err' = [err EXCEPT !["g1"] = None]
    /\ rbErr' = [rbErr EXCEPT !["g1"] = None]
    /\ pre' = [pre EXCEPT !["g1"] = NoPre]
    /\ loads' = [loads EXCEPT !["g1"] = 0]
    /\ rbCalls' = [rbCalls EXCEPT !["g1"] = 0]
    /\ handler' = [handler EXCEPT !.stage = "mark"]
    /\ UNCHANGED <<kernel, rbDir, now, dryRun, current, readers, usedOps, calls, goroutines, overlap>>
    /\ UNCHANGED <<watchVars, engineVars, trIR, texts, delta, dirFiles, statusResp, parsed, records>>

\* ApplyIR's deferred Unlock; ApplyManifests returns to the handler: on an
\* error it answers 500 and returns, otherwise it goes on to MarkApplied.
Handler_ApplyReturns ==
    /\ handler.stage = "applying"
    /\ pc["g1"] = "applyir_unlock"
    /\ writer' = None
    /\ last' = [op |-> "apply", err |-> err["g1"], preKernel |-> pre["g1"].kernel,
                man |-> man["g1"]]
    /\ pc' = [pc EXCEPT !["g1"] = "idle"]
    /\ man' = [man EXCEPT !["g1"] = None]
    /\ ir' = [ir EXCEPT !["g1"] = NoIR]
    /\ ruleset' = [ruleset EXCEPT !["g1"] = NoText]
    /\ err' = [err EXCEPT !["g1"] = None]
    /\ rbErr' = [rbErr EXCEPT !["g1"] = None]
    /\ pre' = [pre EXCEPT !["g1"] = NoPre]
    /\ loads' = [loads EXCEPT !["g1"] = 0]
    /\ rbCalls' = [rbCalls EXCEPT !["g1"] = 0]
    /\ handler' = IF err["g1"] = "ok"
                  THEN [handler EXCEPT !.stage = "mark"]
                  ELSE [handler EXCEPT !.stage = "none", !.resp = 500]
    /\ UNCHANGED <<kernel, rbDir, now, dryRun, current, readers, usedOps, calls, goroutines, overlap>>
    /\ UNCHANGED <<watchVars, engineVars, trIR, texts, delta, dirFiles, statusResp, parsed, records>>

\* store.MarkApplied: UPDATE policies SET applied_at = NOW(); a failure of
\* the statement is logged.  The handler answers 200.
Handler_MarkApplied ==
    /\ handler.stage = "mark"
    /\ \E dbOk \in BOOLEAN :
          records' = IF dbOk THEN [records EXCEPT ![handler.id].appliedAt = now] ELSE records
    /\ handler' = [handler EXCEPT !.stage = "none", !.resp = 200]
    /\ UNCHANGED <<svcVars, watchVars, engineVars, trIR, texts, delta, dirFiles, statusResp, parsed>>

StoreNext ==
    \/ Tick
    \/ \E id \in RecordIds \cup {UnknownId} : Handler_Get(id)
    \/ Handler_Parse
    \/ Handler_Compile
    \/ ApplyIR_Lock("g1")
    \/ Apply_Translate("g1")
    \/ Apply_SaveRollback("g1")
    \/ Apply_TempFile("g1")
    \/ Apply_Load("g1")
    \/ Apply_Revert("g1")
    \/ ApplyIR_Commit("g1")
    \/ Handler_ApplyReturns
    \/ Handler_MarkApplied

StoreSpec == StoreInit /\ [][StoreNext]_vars

\* ─── Positions ───────────────────────────────────────────────────────────
ValidManifests == {"mA", "mB", "mBad"}

\* Inside Adapter.Apply or the rest of ApplyIR, holding the write lock.
ApplyPcs == {"translate", "saveRollback", "tmpfile", "load", "revert",
             "applyir_ret", "applyir_unlock"}

\* A mutating operation (apply, rollback, flush) is in progress in p.
InMutator(p) == pc[p] \in ApplyPcs \cup {"rollback_body", "rollback_unlock",
                                         "flush_body", "flush_unlock"}

\* A status() or current_ir() read is in progress in p.
InReader(p) == pc[p] \in {"status_read", "currentir_read"}

\* The table holds exactly the rules of translate(IR) for the manifests m.
LiveIs(k, m) == k.present /\ k.chains = Translate(CompileIR(m, 0), 0).chains

\* Two tables are both absent, or both present with the same set of lines.
SameLines(k1, k2) ==
    /\ k1.present = k2.present
    /\ LineSet(k1.chains) = LineSet(k2.chains)

\* ─── Claims ──────────────────────────────────────────────────────────────

\* C1: when apply returns a loader failure (non-dry-run), the live ruleset
\* is the one of the moment the call took the lock: the table is present or
\* absent as it was, with the same lines.
C1_AtomicityOnLoaderFailure ==
    \A p \in Procs :
        (pc[p] = "applyir_unlock" /\ err[p] = "loader") => SameLines(kernel, pre[p].kernel)

\* C2: the current IR changes only in the step in which ApplyIR stores the IR
\* of an apply that succeeded; no step of an apply that returns an error
\* (parse, validation, temp file, loader, with or without revert) changes it.
C2_FailedApplyKeepsCurrentIR ==
    [][ /\ current' # current
            => \E q \in Procs : /\ pc[q] = "applyir_ret" /\ pc'[q] = "applyir_unlock"
                                /\ err[q] = "ok" /\ current' = ir[q]
        /\ \A p \in Procs :
              (pc'[p] = "applyir_unlock" /\ err'[p] # "ok") => current' = pre'[p].current
      ]_vars

\* C2 witness: an apply that failed in the loader returns while an earlier
\* IR is still the current one.
C2_Witness ==
    \E p \in Procs :
        /\ pc[p] = "applyir_unlock" /\ err[p] = "loader"
        /\ pre[p].current # NoIR /\ current = pre[p].current /\ current # ir[p]

\* C3: when IR_A was the live ruleset and apply(IR_B) succeeded, the next
\* mutating call, a rollback, succeeds and leaves the line set of
\* translate(IR_A).
C3_RollbackFidelity ==
    \A p \in Procs : \A a \in ValidManifests :
        (/\ pc[p] = "rollback_unlock"
         /\ last.op = "apply" /\ last.err = "ok"
         /\ LiveIs(last.preKernel, a))
        => (/\ err[p] = "ok"
            /\ kernel.present
            /\ LineSet(kernel.chains) = LineSet(Translate(CompileIR(a, 0), 0).chains))

\* C4: after a successful non-dry-run apply the live ruleset has the lines
\* of translate(IR) and no others, and the current IR is that IR.
C4_WholeTableSwap ==
    \A p \in Procs :
        (pc[p] = "applyir_unlock" /\ err[p] = "ok" /\ ~dryRun)
        => (/\ kernel.present
            /\ LineSet(kernel.chains) = LineSet(Translate(ir[p], now).chains)
            /\ current = ir[p])

\* C5: no two mutating operations are in progress together, and no read is
\* in progress while a mutating operation is.
C5_MutualExclusion ==
    \A p \in Procs : \A q \in Procs \ {p} :
        InMutator(p) => (~InMutator(q) /\ ~InReader(q))

\* C5 witness: a status() read and a current_ir() read overlap.
C5_Witness ==
    \E p \in Procs : \E q \in Procs \ {p} :
        pc[p] = "status_read" /\ pc[q] = "currentir_read" /\ readers = {p, q}

\* C6: from the moment an apply has compiled its manifests until its applier
\* has returned, no other apply, rollback or flush is executing.
C6_LockCoversCompile ==
    \A p \in Procs : \A q \in Procs \ {p} :
        (pc[p] = "applyir" \/ pc[p] \in ApplyPcs) => ~InMutator(q)

\* C7: when only applies have run and two of them were submitted
\* concurrently, every ruleset a status() read observes is the ruleset from
\* before them (no table) or has the lines of translate of one submitted
\* manifest list and no others.
C7_NoPartialState ==
    \A p \in Procs :
        (pc[p] = "status_read" /\ overlap /\ usedOps \subseteq {"apply"})
        => (\/ ~kernel.present
            \/ \E m \in ValidManifests :
                  LineSet(kernel.chains) = LineSet(Translate(CompileIR(m, 0), 0).chains))

\* C8: in dry-run mode an apply invokes no loader, leaves the live ruleset
\* and the rollback directory as they were and returns success.
C8_DryRunNoEffect ==
    dryRun =>
        \A p \in Procs :
            /\ pc[p] \in ApplyPcs
                  => (loads[p] = 0 /\ kernel = pre[p].kernel /\ rbDir = pre[p].rbDir)
            /\ pc[p] \in {"applyir_ret", "applyir_unlock"} => err[p] = "ok"
            /\ pc[p] \notin {"saveRollback", "tmpfile", "load", "revert"}

\* C8 witness: a dry-run apply of a ruleset the loader would reject returns
\* success.
C8_Witness ==
    \E p \in Procs :
        dryRun /\ pc[p] = "applyir_unlock" /\ err[p] = "ok" /\ man[p] = "mBad"

\* C9: an apply whose load was rejected has called Rollback exactly once and
\* returns the loader's failure, whatever the rollback returned; an apply
\* whose load was not rejected has not called Rollback.
C9_LoaderFailureReturned ==
    \A p \in Procs :
        pc[p] \in {"applyir_ret", "applyir_unlock"} =>
            /\ (loads[p] >= 1 /\ Rejected(ruleset[p]))
                  => (rbCalls[p] = 1 /\ err[p] = "loader"
                      /\ rbErr[p] \in {"ok", "no_snapshot", "rollback_load"})
            /\ ~(loads[p] >= 1 /\ Rejected(ruleset[p]))
                  => (rbCalls[p] = 0 /\ err[p] # "loader")

\* C9 witness: the load failed and the rollback failed too (no snapshot);
\* the apply returns the loader's failure.
C9_Witness ==
    \E p \in Procs :
        pc[p] = "applyir_unlock" /\ err[p] = "loader" /\ rbErr[p] = "no_snapshot"

\* C10: a rollback that found the rollback directory missing or empty
\* returns an error, has not invoked the loader, and has left the live
\* ruleset, the rollback directory and the current IR as they were.
C10_RollbackWithoutSnapshot ==
    \A p \in Procs :
        (/\ pc[p] = "rollback_unlock"
         /\ (~pre[p].rbDir.exists \/ DOMAIN pre[p].rbDir.files = {}))
        => (/\ err[p] = "no_snapshot"
            /\ loads[p] = 0
            /\ kernel = pre[p].kernel
            /\ rbDir = pre[p].rbDir
            /\ current = pre[p].current)

\* C10 witness: rollback on an existing but empty directory while a table is
\* live.
C10_Witness ==
    \E p \in Procs :
        /\ pc[p] = "rollback_unlock" /\ err[p] = "no_snapshot"
        /\ pre[p].rbDir.exists /\ DOMAIN pre[p].rbDir.files = {}
        /\ kernel.present /\ current # NoIR

\* C11: a rollback on a directory that holds at least one snapshot loads the
\* snapshot with the greatest rollback-<t>.conf name, whatever other entries
\* the directory holds: it succeeds with one load and leaves the table that
\* loading this snapshot gives.
C11_LatestSnapshotLoaded ==
    \A p \in Procs :
        (pc[p] = "rollback_unlock" /\ DOMAIN pre[p].rbDir.files # {})
        => LET d    == pre[p].rbDir
               want == NftLoad(pre[p].kernel, d.files[Max(DOMAIN d.files)])
           IN  /\ err[p] = "ok"
               /\ loads[p] = 1
               /\ kernel = want.kernel

\* C12: a flush that returns success leaves no table in the kernel, and a
\* flush called while there is no table returns success and leaves the kernel
\* as it was.
C12_FlushIdempotent ==
    \A p \in Procs :
        pc[p] = "flush_unlock" =>
            /\ err[p] = "ok" => ~kernel.present
            /\ ~pre[p].kernel.present => (err[p] = "ok" /\ kernel = pre[p].kernel)

\* C12 witness: a flush removed a table with rules, and the next mutating
\* call, a second flush, returns success with no table to remove.
C12_Witness ==
    \E p \in Procs :
        /\ pc[p] = "flush_unlock" /\ err[p] = "ok"
        /\ last.op = "flush" /\ last.err = "ok" /\ last.preKernel.present
        /\ ~pre[p].kernel.present /\ ~kernel.present

\* C13: a call that fails before the applier (apply_directory on a directory
\* with a file that does not parse, apply_manifests on manifests that do not
\* validate) returns in that step: it has not taken the lock or invoked the
\* loader, and the step leaves the live ruleset, the rollback directory and
\* the current IR as they are.  A directory with one unparseable file always
\* fails so, whatever valid manifests its other files hold.
C13_EarlyFailureChangesNothing ==
    [][ \A p \in Procs :
          /\ (pc[p] \in {"parsedir", "compile"} /\ pc'[p] = "idle")
                => /\ kernel' = kernel /\ rbDir' = rbDir /\ current' = current
                   /\ loads[p] = 0 /\ loads'[p] = 0
                   /\ writer # p /\ writer' = writer
                   /\ last' = last
          /\ (pc[p] = "parsedir" /\ policyDir.broken /\ pc'[p] # "parsedir")
                => pc'[p] = "idle"
          /\ (pc[p] = "compile" /\ ~ValidateAll(man[p]) /\ pc'[p] # "compile")
                => pc'[p] = "idle"
      ]_vars

\* C13 witness: apply_directory is reading a directory that holds valid
\* manifests and one unparseable file, while a table is live and an IR is
\* current.
C13_Witness ==
    \E p \in Procs :
        /\ pc[p] = "parsedir"
        /\ policyDir.broken /\ policyDir.manifests \in ValidManifests
        /\ kernel.present /\ current # NoIR

\* The directory parses, its manifests validate and the loader takes their
\* ruleset.
GoodDir(d) == ~d.broken /\ d.manifests \in {"mA", "mB"}

\* C14: WatchAndReload ends only by cancellation: whatever ApplyPolicyDir
\* returned, the loop goes back to its select, with nothing kept from the
\* attempt (no manifests, IR, error or lock), and while the context is not
\* cancelled a tick that is waiting can be taken for a new attempt.
C14_WatcherRobust ==
    [][ /\ watcher' = "returned" => cancelled'
        /\ (watcher = "apply" /\ watcher' # "apply") => watcher' = "select"
        /\ watcher' = "select"
              => /\ pc'[Watcher] = "idle" /\ writer' # Watcher
                 /\ man'[Watcher] = None /\ ir'[Watcher] = NoIR
                 /\ ruleset'[Watcher] = NoText /\ err'[Watcher] = None
        /\ (watcher' = "select" /\ ticker' /\ ~cancelled' /\ calls' < MaxWakes)
              => (ENABLED Watcher_Wake)'
      ]_vars

\* C14 witness: the earlier wake failed in the loader, and the watcher, not
\* cancelled, has taken the next tick and reads the directory again.
C14_Witness ==
    /\ watcher = "apply" /\ pc[Watcher] = "parsedir" /\ ~cancelled
    /\ last.op = "apply" /\ last.err = "loader"

\* C15: once the context is cancelled the watcher starts no ApplyPolicyDir,
\* and it returns only from its select, never while an apply is in progress.
C15_NoWakeAfterCancel ==
    [][ /\ cancelled => ~(watcher = "select" /\ watcher' = "apply")
        /\ (watcher # "returned" /\ watcher' = "returned")
              => (watcher = "select" /\ cancelled /\ pc[Watcher] = "idle")
      ]_vars

C17_ShutdownWaitsForApply ==
    main = "exited" =>
        \A p \in Procs : pc[p] \notin {"translate", "saveRollback", "tmpfile", "load",
                                       "revert", "applyir_ret"}

\* The priorities of the rules in a sequence.
PrioritiesOf(rules) == {rules[i].Priority : i \in 1..Len(rules)}

\* The rules of priority q, in the order they have in the sequence.
RulesAt(rules, q) ==
    LET Has(r) == r.Priority = q
    IN  SelectSeq(rules, Has)

\* The manifests of the list that the validator refuses.
InvalidManifests(ms) == {i \in 1..Len(ms) : Validate(ms[i]) # <<>>}

\* C18: the firewallRules of a compiled IR are in ascending priority order,
\* and the rules of one priority are in the order of the input (manifest
\* order, then rule order within the manifest).
C18_SortedStable ==
    \A k \in 1..Len(irs) :
        irs[k].ok =>
            LET out == irs[k].FirewallRules
                inp == appendRules(manifests, 1)
            IN  /\ \A i \in 1..Len(out) : \A j \in i..Len(out) :
                      out[i].Priority <= out[j].Priority
                /\ \A q \in PrioritiesOf(inp) : RulesAt(out, q) = RulesAt(inp, q)

\* C19: on a list with k invalid manifests Compile returns an error and no
\* IR, and the error list has at least k entries and holds the errors of
\* every invalid manifest, the later ones too.
C19_ValidationAggregates ==
    \A k \in 1..Len(irs) :
        LET bad == InvalidManifests(manifests)
        IN  bad # {} =>
              /\ ~irs[k].ok
              /\ irs[k].ID = 0 /\ irs[k].Version = 0 /\ irs[k].FirewallRules = <<>>
              /\ Len(irs[k].errors) >= Cardinality(bad)
              /\ \A i \in bad : \A n \in 1..Len(Validate(manifests[i])) :
                    \E e \in 1..Len(irs[k].errors) :
                        irs[k].errors[e] = Validate(manifests[i])[n]

\* C19 witness: both manifests of the list are invalid, the first for its
\* name and the second for its name and two rules; the error list has all
\* four entries.
C19_Witness ==
    /\ Len(irs) >= 1 /\ ~irs[1].ok
    /\ Len(manifests) = 2 /\ InvalidManifests(manifests) = {1, 2}
    /\ Len(Validate(manifests[1])) = 1 /\ Len(Validate(manifests[2])) = 3
    /\ Len(irs[1].errors) = 4

RulesEmitted(text, c) == SubSeq(text.chains[c], Len(TemplateRules[c]) + 1, Len(text.chains[c]))

\* C21: two Translate calls on the same IR, at any two times, return the
\* same text.
C21_TranslationPurity ==
    \A i \in 1..Len(texts), j \in 1..Len(texts) : texts[i] = texts[j]

\* C22: a Diff of the IR against a table that holds the text of an earlier
\* Translate of the same IR has no entry but blank lines; and every entry of
\* a Diff against a listed table is a "-" line of the listing that the
\* proposed text lacks or a "+" line of the proposed text that the listing
\* lacks.
C22_DiffRoundTrip ==
    (delta.done /\ delta.live) =>
        LET cLines == ListingLines(dumpCurrent(kernel).text)
            pLines == FileLines(Translate(trIR, delta.at))
            cSet   == {TrimSpace(cLines[k]) : k \in 1..Len(cLines)}
            pSet   == {TrimSpace(pLines[k]) : k \in 1..Len(pLines)}
        IN  /\ \A k \in 1..Len(delta.out) : delta.out[k].line.body = ""
            /\ \A k \in 1..Len(delta.out) :
                  LET e == delta.out[k]
                  IN  \/ e.sign = "-" /\ TrimSpace(e.line) \in cSet \ pSet
                      \/ e.sign = "+" /\ TrimSpace(e.line) \in pSet \ cSet

\* The statements of the firewall rules of `rules` whose chain field is c, and
\* those of the NAT rules whose type is in `types`, in the order of `rules`.
FirewallStmtsIn(rules, c) ==
    LET InChain(r) == r.Chain = c
        sel == SelectSeq(rules, InChain)
    IN  [k \in 1..Len(sel) |-> sel[k].Stmt]

NATStmtsIn(rules, types) ==
    LET OfType(r) == r.Type \in types
        sel == SelectSeq(rules, OfType)
    IN  [k \in 1..Len(sel) |->
            CASE sel[k].Type = "DNAT" -> translateDNAT(sel[k])
              [] sel[k].Type = "SNAT" -> translateSNAT(sel[k])
              [] OTHER                -> translateMasquerade(sel[k])]

\* C28: in every text Translate returned for the IR, the chains input,
\* forward and output hold, after the template's statements, the statements
\* of the IR's firewall rules with that chain field, each once and in IR
\* order; prerouting holds the DNAT rules and postrouting the SNAT and
\* MASQUERADE rules, in IR order; ct_state holds none.
C28_TranslatorPlacement ==
    \A k \in 1..Len(texts) :
        /\ \A c \in {"input", "forward", "output"} :
              RulesEmitted(texts[k], c) = FirewallStmtsIn(trIR.FirewallRules, c)
        /\ RulesEmitted(texts[k], "prerouting") = NATStmtsIn(trIR.NATRules, {"DNAT"})
        /\ RulesEmitted(texts[k], "postrouting") = NATStmtsIn(trIR.NATRules, {"SNAT", "MASQUERADE"})
        /\ RulesEmitted(texts[k], "ct_state") = <<>>

\* A text was translated for an IR with two rules of one chain and NAT rules
\* of both NAT chains.
C28_Witness ==
    /\ Len(texts) >= 1
    /\ \E i \in 1..Len(trIR.FirewallRules), j \in 1..Len(trIR.FirewallRules) :
          /\ i < j
          /\ trIR.FirewallRules[i].Chain = trIR.FirewallRules[j].Chain
          /\ trIR.FirewallRules[i].Stmt # trIR.FirewallRules[j].Stmt
    /\ \E i \in 1..Len(trIR.NATRules) : trIR.NATRules[i].Type = "SNAT"

\* C23: a non-dry-run apply goes from translate to the snapshot, from there
\* to the temp file and from there to the load or (temp-file failure) to the
\* return; the table changes inside an apply only in its load or its revert
\* step; the revert step is entered only from a load the loader refused; and
\* an apply that returns the temp-file error leaves the table as it found it.
C23_ApplyStepOrder ==
    [][\A p \in Procs :
          /\ (pc[p] = "translate" /\ pc'[p] # pc[p] /\ ~dryRun) => pc'[p] = "saveRollback"
          /\ (pc[p] = "saveRollback" /\ pc'[p] # pc[p]) => pc'[p] = "tmpfile"
          /\ (pc[p] = "tmpfile" /\ pc'[p] # pc[p]) =>
                \/ pc'[p] = "load"
                \/ pc'[p] = "applyir_ret" /\ err'[p] = "tmpfile" /\ kernel' = pre[p].kernel
          /\ (pc'[p] = "load" /\ pc[p] # "load") => pc[p] = "tmpfile"
          /\ (pc'[p] = "revert" /\ pc[p] # "revert") =>
                pc[p] = "load" /\ Rejected(ruleset[p]) /\ kernel' = kernel
          /\ (pc[p] \in ApplyPcs /\ kernel' # kernel) => pc[p] \in {"load", "revert"}
          /\ (pc'[p] = "applyir_unlock" /\ err'[p] = "tmpfile") => kernel' = pre'[p].kernel
      ]_vars

\* An apply went through translate, snapshot, temp file, a refused load and
\* the revert.
C23_Witness ==
    \E p \in Procs : /\ pc[p] = "applyir_ret" /\ err[p] = "loader" /\ rbCalls[p] = 1
                     /\ loads[p] >= 1 /\ ~dryRun

\* The apply in progress in p is past its snapshot step and wrote no snapshot.
SnapshotNotCaptured(p) ==
    /\ pc[p] \in {"tmpfile", "load", "revert", "applyir_ret", "applyir_unlock"}
    /\ ~dryRun
    /\ rbDir.files = pre[p].rbDir.files

\* C24 as stated: an apply whose snapshot was not captured still invokes the
\* loader, and returns success when the loader accepts the ruleset.
C24_SnapshotFailureTolerated ==
    \A p \in Procs :
        (pc[p] = "applyir_unlock" /\ SnapshotNotCaptured(p)) =>
            /\ loads[p] >= 1
            /\ ~Rejected(ruleset[p]) => err[p] = "ok"

\* C24, amended: an apply whose snapshot was not captured goes on to the temp
\* file; unless the temp file fails it invokes the loader, and it returns
\* success when the loader accepts the ruleset.
C24_SnapshotFailureGoesOn ==
    \A p \in Procs :
        (pc[p] = "applyir_unlock" /\ SnapshotNotCaptured(p)) =>
            /\ err[p] \in {"ok", "loader", "tmpfile"}
            /\ err[p] # "tmpfile" => loads[p] >= 1
            /\ (loads[p] >= 1 /\ ~Rejected(ruleset[p])) => err[p] = "ok"

\* An apply on a present table whose snapshot could not be written has run
\* the loader and returns success.
C24_Witness ==
    \E p \in Procs :
        /\ pc[p] = "applyir_unlock" /\ SnapshotNotCaptured(p)
        /\ pre[p].kernel.present /\ loads[p] = 1 /\ err[p] = "ok"

\* C25: the step in which DiffManifests lists the live table is taken only
\* while no apply, rollback or flush is in progress in another goroutine, and
\* it changes neither the table, nor the rollback directory, nor the current IR.
C25_DiffIsLockedReader ==
    [][\A p \in Procs :
          (pc[p] = "diff_read" /\ pc'[p] # "diff_read") =>
              /\ \A q \in Procs \ {p} : ~InMutator(q)
              /\ kernel' = kernel /\ rbDir' = rbDir /\ current' = current
      ]_vars

\* The compiled rules of `out` that carry the comment of rule i of manifest m
\* (i = 0: the comment of the default rule).
CompiledFrom(out, m, i) ==
    LET Named(r) == r.Comment = <<m.Name, i>>
    IN  SelectSeq(out, Named)

\* C26: the compiled priority of the rule at zero-based index i is the rule's
\* own priority when that is greater than 0, and (i + 1) * 100 otherwise,
\* for zero and for negative priorities.  (The model's index is i + 1.)
C26_PriorityAssignment ==
    \A k \in 1..Len(irs) :
        irs[k].ok =>
            \A mi \in 1..Len(manifests) : \A i \in 1..Len(manifests[mi].Rules) :
                \A j \in 1..Len(irs[k].FirewallRules) :
                    irs[k].FirewallRules[j].Comment = <<manifests[mi].Name, i>> =>
                        irs[k].FirewallRules[j].Priority =
                            IF manifests[mi].Rules[i].Priority > 0
                            THEN manifests[mi].Rules[i].Priority
                            ELSE i * 100

\* The verdict of each action the validator admits.
Canonical(a) ==
    CASE a = "ALLOW"  -> "accept"
      [] a = "DROP"   -> "drop"
      [] a = "REJECT" -> "reject"
      [] a = "LOG"    -> "log"

\* C27: every compiled rule has a chain of the three and a verdict of the
\* four; the rule compiled from an input rule has chain input when the
\* destination zones hold localhost, else output when the source zones do,
\* else forward; and a manifest with a default action gets exactly one more
\* rule, with priority 99999, chain forward, the canonical default action and
\* the comment of the default rule; a manifest without gets none.
C27_ChainAndVerdict ==
    \A k \in 1..Len(irs) :
        irs[k].ok =>
            LET out == irs[k].FirewallRules
                m   == manifests[1]
            IN  /\ \A j \in 1..Len(out) :
                      /\ out[j].Chain \in {"input", "forward", "output"}
                      /\ out[j].Action \in {"accept", "drop", "reject", "log"}
                /\ \A i \in 1..Len(m.Rules) :
                      LET c == CompiledFrom(out, m, i)
                      IN  /\ Len(c) = 1
                          /\ c[1].Action = Canonical(m.Rules[i].Action)
                          /\ c[1].Chain =
                                IF "localhost" \in m.Rules[i].DstZones THEN "input"
                                ELSE IF "localhost" \in m.Rules[i].SrcZones THEN "output"
                                ELSE "forward"
                /\ LET d == CompiledFrom(out, m, 0)
                   IN  IF m.DefaultAction = ""
                       THEN d = <<>> /\ Len(out) = Len(m.Rules)
                       ELSE /\ Len(d) = 1 /\ Len(out) = Len(m.Rules) + 1
                            /\ d[1].Priority = 99999
                            /\ d[1].Chain = "forward"
                            /\ d[1].Action = Canonical(m.DefaultAction)

\* A manifest with a default action and a rule that names localhost on both
\* sides was compiled.
C27_Witness ==
    /\ Len(irs) >= 1 /\ irs[1].ok
    /\ manifests[1].DefaultAction # ""
    /\ \E i \in 1..Len(manifests[1].Rules) :
          /\ "localhost" \in manifests[1].Rules[i].SrcZones
          /\ "localhost" \in manifests[1].Rules[i].DstZones
    /\ \E i \in 1..Len(manifests[1].Rules) :
          /\ "localhost" \in manifests[1].Rules[i].SrcZones
          /\ "localhost" \notin manifests[1].Rules[i].DstZones

\* C29: ParseDir returns the manifests of all files named *.yaml or *.yml, in
\* the order of the file names taken over both extensions together.
C29_ParseDirOrder ==
    (parsed.done /\ parsed.ok) =>
        parsed.manifests = SortStrings({n \in DOMAIN dirFiles : n.ext \in {"yaml", "yml"}})

\* C30: the applied mark of a record changes only in the MarkApplied step of
\* a request for that record whose ApplyManifests call, on the manifests
\* parsed from the record, returned success; a request whose ApplyManifests
\* call returned an error ends without that step and leaves every mark as it
\* was.
C30_MarkOnlyAfterSuccess ==
    [][/\ \A id \in RecordIds :
             records'[id].appliedAt # records[id].appliedAt =>
                 /\ handler.stage = "mark" /\ handler.id = id
                 /\ last.op = "apply" /\ last.err = "ok"
                 /\ last.man = parseRecordToManifests(records[id].yaml).manifests
       /\ (handler.stage = "applying" /\ handler'.stage # "applying") =>
             /\ records' = records
             /\ handler'.stage = "mark" <=> (pc["g1"] = "applyir_unlock" /\ err["g1"] = "ok")
       /\ handler'.stage = "mark" => handler.stage \in {"applying", "mark"}
      ]_vars

\* One request marked its record after a successful apply, and a later
\* request for the other record, whose apply the loader refused, was answered
\* 500 and left that record unmarked.
C30_Witness ==
    /\ handler.stage = "none" /\ handler.resp = 500
    /\ last.op = "apply" /\ last.err = "loader"
    /\ records[handler.id].appliedAt = 0
    /\ \E id \in RecordIds : records[id].appliedAt > 0

\* C31: whenever no apply, rollback or flush holds the lock, the current IR
\* is absent or the live table is present with the lines of the current IR's
\* translation and no others.
C31_CurrentIRMatchesDataplane ==
    writer = None =>
        \/ current = NoIR
        \/ /\ kernel.present
           /\ LineSet(kernel.chains) = LineSet(Translate(current, now).chains)

\* What a rollback() called on table k with directory d restores: its result
\* and the lines of the table it leaves.
Restores(k, d) ==
    LET r == Rollback(k, d)
    IN  [err |-> r.err, present |-> r.kernel.present, lines |-> LineSet(r.kernel.chains)]

\* C32: when a non-dry-run apply of the manifests whose ruleset is live (they
\* are those of the current IR and the table holds the lines of their
\* translation) returns success, the table has the lines it had before the
\* call, and a rollback() called next restores what it would have restored
\* before the call.
C32_ReapplyIsNoOp ==
    \A p \in Procs :
        (/\ pc[p] = "applyir_unlock" /\ err[p] = "ok" /\ ~dryRun
         /\ pre[p].current.Manifests = man[p]
         /\ pre[p].kernel.present
         /\ LineSet(pre[p].kernel.chains) = LineSet(Translate(ir[p], now).chains))
        => (/\ SameLines(kernel, pre[p].kernel)
            /\ Restores(kernel, rbDir) = Restores(pre[p].kernel, pre[p].rbDir))

C34_CommitInCompileOrder ==
    [][(~dryRun /\ current' # current /\ current # NoIR)
          => current'.Version >= current.Version]_vars

\* Goroutine p is inside a call: it has called a Service method that has not
\* returned yet.
InCall(p) == pc[p] # "idle"

\* C35: a goroutine holds the write lock exactly while it is inside the
\* locked part of apply, rollback or flush (the automatic rollback of a
\* failing apply included) and the read lock exactly while it reads for
\* status or current_ir, so a call that has returned holds nothing; and every
\* call a goroutine is inside of returns.
C35_LockReleasedAndCallsReturn ==
    /\ [](\A p \in Procs : /\ writer = p <=> InMutator(p)
                           /\ p \in readers <=> InReader(p))
    /\ \A p \in Handlers : InCall(p) ~> ~InCall(p)

\* An apply whose load was refused is in its automatic rollback, holding the
\* lock, while the other goroutine waits in s.mu.Lock() of Rollback.
C35_Witness ==
    \E p \in Procs : \E q \in Procs \ {p} :
        pc[p] = "revert" /\ writer = p /\ pc[q] = "rollback_lock"

\* C39: in a status response that carries a ruleset text and a current IR,
\* the two were current together when the handler read the text or when it
\* read the IR.
C39_StatusPairConsistent ==
    (statusResp.done /\ statusResp.status = "active")
        => \/ statusResp.irThen = statusResp.ir
           \/ statusResp.liveThen = statusResp.ruleset

\* C36: in the rules of every successful Compile run, the catch-all rule of a
\* manifest's default action stands after every rule compiled from a rule of
\* that manifest.
C36_DefaultRuleLast ==
    \A k \in 1..Len(irs) :
        irs[k].ok =>
            LET rs == irs[k].FirewallRules
            IN  \A d \in 1..Len(rs) : \A e \in 1..Len(rs) :
                    (/\ rs[d].Comment[2] = 0 /\ rs[e].Comment[2] > 0
                     /\ rs[d].Comment[1] = rs[e].Comment[1])
                    => e < d

\* C37: in the statement of every rule the validator accepted, each source
\* or destination port match is qualified by tcp or udp.
C37_PortMatchHasTransport ==
    \A k \in 1..Len(irs) :
        irs[k].ok =>
            \A j \in 1..Len(irs[k].stmt) :
                irs[k].stmt[j].kw \in {"sport", "dport"}
                    => irs[k].stmt[j].proto \in {"tcp", "udp"}

\* C38: in every successful run, the compiled rule of an SNAT rule carries
\* the rule's toSource and that of a DNAT rule its toDest; when the address
\* is set, the statement is "snat to <toSource>", "dnat to <toDest>".
C38_NATToAddrCarried ==
    \A k \in 1..Len(irs) :
        irs[k].ok =>
            \A i \in 1..Len(manifests) :
                LET r == manifests[i]
                    c == irs[k].NATRules[i]
                IN  /\ (r.Type = "SNAT" =>
                           /\ c.ToAddr = r.ToSource
                           /\ r.ToSource # "" => irs[k].stmts[i] = <<"snat to " \o r.ToSource>>)
                    /\ (r.Type = "DNAT" =>
                           /\ c.ToAddr = r.ToDest
                           /\ r.ToDest # "" => irs[k].stmts[i] = <<"dnat to " \o r.ToDest>>)

====
